---- MODULE Spec2Model ----
(***************************************************************************)
(* niwa: a store of versioned document nodes that several agents edit     *)
(* concurrently.  The model follows class Niwa (src/niwa/cli.py, the same *)
(* code as src/niwa/niwa.py) and the command handlers of main in          *)
(* src/niwa/cli.py, which drive it.                                       *)
(*                                                                         *)
(* A text is a sequence of one-character strings; NL is the line feed.    *)
(* Line indices are zero-based and ranges half-open, as in the source.    *)
(***************************************************************************)
EXTENDS Integers, Sequences, FiniteSets, TLC

NL == "\n"

\* Python's None where a text is expected: no text holds a two-letter element.
None == <<"None">>

Min(x, y) == IF x <= y THEN x ELSE y
Max(x, y) == IF x >= y THEN x ELSE y

\* Python slice s[lo:hi] over a zero-based sequence, with clamping.
Slice(s, lo, hi) ==
    LET l == Min(Max(lo, 0), Len(s))
        h == Min(Max(hi, 0), Len(s))
    IN  IF h <= l THEN << >> ELSE SubSeq(s, l + 1, h)

RECURSIVE Concat(_)
\* ''.join(parts)
Concat(parts) ==
    IF parts = << >> THEN << >> ELSE Head(parts) \o Concat(Tail(parts))

RECURSIVE JoinNL(_)
\* '\n'.join(lines)
JoinNL(lines) ==
    IF lines = << >> THEN << >>
    ELSE IF Len(lines) = 1 THEN lines[1]
    ELSE lines[1] \o <<NL>> \o JoinNL(Tail(lines))

\* Position (1-based) of the first line feed of s, or 0.
FirstNL(s) ==
    IF \E i \in 1..Len(s) : s[i] = NL
    THEN CHOOSE i \in 1..Len(s) : s[i] = NL /\ \A j \in 1..(i - 1) : s[j] # NL
    ELSE 0

RECURSIVE SplitLinesKeep(_)
\* str.splitlines(keepends=True)
SplitLinesKeep(s) ==
    IF s = << >> THEN << >>
    ELSE LET p == FirstNL(s)
         IN  IF p = 0 THEN <<s>>
             ELSE <<SubSeq(s, 1, p)>> \o SplitLinesKeep(SubSeq(s, p + 1, Len(s)))

\* The lines k without their line ends.
DropEnds(k) ==
    [i \in 1..Len(k) |->
        IF k[i][Len(k[i])] = NL THEN SubSeq(k[i], 1, Len(k[i]) - 1) ELSE k[i]]

\* str.splitlines()
SplitLines(s) == DropEnds(SplitLinesKeep(s))

IsSpace(ch) == ch \in {NL, " "}

RECURSIVE LStrip(_)
LStrip(s) == IF s # << >> /\ IsSpace(Head(s)) THEN LStrip(Tail(s)) ELSE s

RECURSIVE RStrip(_)
RStrip(s) ==
    IF s # << >> /\ IsSpace(s[Len(s)]) THEN RStrip(SubSeq(s, 1, Len(s) - 1)) ELSE s

\* str.strip()
Strip(s) == RStrip(LStrip(s))

\* x in y, for strings
IsSubstring(x, y) ==
    \E i \in 0..(Len(y) - Len(x)) : SubSeq(y, i + 1, i + Len(x)) = x

RECURSIVE Replace(_, _)
\* s.replace(old, ""): every non-overlapping occurrence, left to right
Replace(s, old) ==
    IF old = << >> \/ Len(s) < Len(old) THEN s
    ELSE IF SubSeq(s, 1, Len(old)) = old
         THEN Replace(SubSeq(s, Len(old) + 1, Len(s)), old)
         ELSE <<Head(s)>> \o Replace(Tail(s), old)

(***************************************************************************)
(* difflib.SequenceMatcher(None, a, b), without junk: below 200 elements  *)
(* the autojunk heuristic never applies.                                  *)
(***************************************************************************)

\* Length of the longest common run of a from i and b from j (zero-based).
RECURSIVE RunLen(_, _, _, _, _, _)
RunLen(a, b, i, j, ahi, bhi) ==
    IF i < ahi /\ j < bhi /\ a[i + 1] = b[j + 1]
    THEN 1 + RunLen(a, b, i + 1, j + 1, ahi, bhi)
    ELSE 0

\* The longest block among the run lengths K (start in a, start in b ->
\* length): the longest, then the earliest in a, then the earliest in b.
LongestOf(K, alo, blo) ==
    LET Cand == DOMAIN K
        Best(p) == \A q \in Cand :
                      \/ K[q] < K[p]
                      \/ K[q] = K[p] /\ (p[1] < q[1] \/ (p[1] = q[1] /\ p[2] <= q[2]))
    IN  IF \A p \in Cand : K[p] = 0 THEN <<alo, blo, 0>>
        ELSE LET p == CHOOSE p \in Cand : Best(p) IN <<p[1], p[2], K[p]>>

\* find_longest_match
FindLongestMatch(a, b, alo, ahi, blo, bhi) ==
    LongestOf([p \in (alo..(ahi - 1)) \X (blo..(bhi - 1)) |->
                  RunLen(a, b, p[1], p[2], ahi, bhi)] @@ << >>,
              alo, blo)

RECURSIVE MatchingBlocks(_, _, _, _, _, _)
RECURSIVE BlocksAround(_, _, _, _, _, _, _)
\* get_matching_blocks: the blocks left of the longest match m, m, and the
\* blocks right of it
BlocksAround(a, b, alo, ahi, blo, bhi, m) ==
    IF m[3] = 0 THEN << >>
    ELSE MatchingBlocks(a, b, alo, m[1], blo, m[2])
         \o <<m>>
         \o MatchingBlocks(a, b, m[1] + m[3], ahi, m[2] + m[3], bhi)

\* get_matching_blocks, without the final sentinel
MatchingBlocks(a, b, alo, ahi, blo, bhi) ==
    IF alo >= ahi \/ blo >= bhi THEN << >>
    ELSE BlocksAround(a, b, alo, ahi, blo, bhi,
                      FindLongestMatch(a, b, alo, ahi, blo, bhi))

RECURSIVE OpcodesFrom(_, _, _)
OpcodesFrom(blocks, i, j) ==
    IF blocks = << >> THEN << >>
    ELSE LET m == Head(blocks)
             tag == IF i < m[1] /\ j < m[2] THEN "replace"
                    ELSE IF i < m[1] THEN "delete"
                    ELSE IF j < m[2] THEN "insert"
                    ELSE ""
             gap == IF tag = "" THEN << >>
                    ELSE <<[tag |-> tag, i1 |-> i, i2 |-> m[1], j1 |-> j, j2 |-> m[2]]>>
             eq  == IF m[3] > 0
                    THEN <<[tag |-> "equal", i1 |-> m[1], i2 |-> m[1] + m[3],
                            j1 |-> m[2], j2 |-> m[2] + m[3]]>>
                    ELSE << >>
         IN  gap \o eq \o OpcodesFrom(Tail(blocks), m[1] + m[3], m[2] + m[3])

\* get_opcodes
GetOpcodes(a, b) ==
    OpcodesFrom(MatchingBlocks(a, b, 0, Len(a), 0, Len(b)) \o <<<<Len(a), Len(b), 0>>>>, 0, 0)

IsNotEqualOp(op) == op.tag # "equal"

\* _extract_changes: the entries made for the opcodes other than 'equal'
ChangeRecords(ops, old_lines, new_lines) ==
    [k \in 1..Len(ops) |->
        [type |-> ops[k].tag,
         old_start |-> ops[k].i1, old_end |-> ops[k].i2,
         new_start |-> ops[k].j1, new_end |-> ops[k].j2,
         old_lines |-> Slice(old_lines, ops[k].i1, ops[k].i2),
         new_lines |-> Slice(new_lines, ops[k].j1, ops[k].j2)]]

\* _extract_changes, of the lines of the two texts
ChangesOfLines(old_lines, new_lines) ==
    ChangeRecords(SelectSeq(GetOpcodes(old_lines, new_lines), IsNotEqualOp),
                  old_lines, new_lines)

\* _extract_changes
ExtractChanges(old, new) == ChangesOfLines(SplitLines(old), SplitLines(new))

\* _ranges_overlap
RangesOverlap(r1, r2) == r1[1] < r2[2] /\ r2[1] < r1[2]

\* _find_overlaps: the entries made for the pairs of changes that overlap
OverlapRecords(hits, base_lines) ==
    [k \in 1..Len(hits) |->
        LET yc == hits[k][1]
            tc == hits[k][2]
            start == Min(yc.old_start, tc.old_start)
            end == Max(yc.old_end, tc.old_end)
        IN  [start |-> start, end |-> end,
             original |-> IF start < Len(base_lines)
                          THEN JoinNL(Slice(base_lines, start, end)) ELSE << >>,
             yours |-> JoinNL(yc.new_lines),
             theirs |-> JoinNL(tc.new_lines),
             your_change_type |-> yc.type,
             their_change_type |-> tc.type]]

\* _find_overlaps
FindOverlaps(your_changes, their_changes, base_content) ==
    LET ny == Len(your_changes)
        nt == Len(their_changes)
        PairAt(k) == <<your_changes[((k - 1) \div nt) + 1],
                       their_changes[((k - 1) % nt) + 1]>>
        pairs == [k \in 1..(ny * nt) |-> PairAt(k)]
        Hit(p) == RangesOverlap(<<p[1].old_start, p[1].old_end>>,
                                <<p[2].old_start, p[2].old_end>>)
    IN  OverlapRecords(SelectSeq(pairs, Hit), SplitLines(base_content))

\* x put into the sorted list rest, after every element whose key is >= its own
InsertByStart(rest, x) ==
    LET n == Cardinality({k \in 1..Len(rest) : rest[k].i1 >= x.i1})
    IN  SubSeq(rest, 1, n) \o <<x>> \o SubSeq(rest, n + 1, Len(rest))

RECURSIVE SortByStartDesc(_)
\* The stable sort of all_ops by old start, descending (list.sort(reverse=True)).
SortByStartDesc(ops) ==
    IF ops = << >> THEN << >>
    ELSE InsertByStart(SortByStartDesc(SubSeq(ops, 1, Len(ops) - 1)), ops[Len(ops)])

\* result[i1:i2] = new_lines
Splice(result, i1, i2, new_lines) ==
    LET lo == Min(i1, Len(result))
        hi == Max(lo, Min(i2, Len(result)))
    IN  Slice(result, 0, lo) \o new_lines \o Slice(result, hi, Len(result))

RECURSIVE ApplyOps(_, _, _)
\* the loop over all_ops of _three_way_merge
ApplyOps(all_ops, result, applied_ranges) ==
    IF all_ops = << >> THEN result
    ELSE LET o == Head(all_ops)
             overlaps_applied ==
                 \E k \in 1..Len(applied_ranges) :
                     o.i1 < applied_ranges[k][2] /\ applied_ranges[k][1] < o.i2
         IN  IF overlaps_applied
             THEN ApplyOps(Tail(all_ops), result, applied_ranges)
             ELSE ApplyOps(Tail(all_ops),
                           IF o.op \in {"replace", "delete"}
                           THEN Splice(result, o.i1, o.i2, o.new_lines)
                           ELSE Splice(result, o.i1, o.i1, o.new_lines),
                           Append(applied_ranges, <<o.i1, o.i2>>))

RECURSIVE SkippedOps(_, _)
\* the loop over all_ops of _three_way_merge: the entries it passes over
\* with `continue`
SkippedOps(all_ops, applied_ranges) ==
    IF all_ops = << >> THEN << >>
    ELSE LET o == Head(all_ops)
             overlaps_applied ==
                 \E k \in 1..Len(applied_ranges) :
                     o.i1 < applied_ranges[k][2] /\ applied_ranges[k][1] < o.i2
         IN  IF overlaps_applied
             THEN <<o>> \o SkippedOps(Tail(all_ops), applied_ranges)
             ELSE SkippedOps(Tail(all_ops), Append(applied_ranges, <<o.i1, o.i2>>))

\* The entries of all_ops made for the opcodes of one side.
OpRecords(source, ops, side_lines) ==
    [k \in 1..Len(ops) |->
        [source |-> source, op |-> ops[k].tag, i1 |-> ops[k].i1, i2 |-> ops[k].i2,
         new_lines |-> Slice(side_lines, ops[k].j1, ops[k].j2)]]

\* your_ops or their_ops, as added to all_ops
SideOps(source, base_lines, side_lines) ==
    OpRecords(source, SelectSeq(GetOpcodes(base_lines, side_lines), IsNotEqualOp),
              side_lines)

\* _three_way_merge, of the lines of the three texts
MergeLines(base_lines, your_lines, their_lines) ==
    Concat(ApplyOps(SortByStartDesc(SideOps("yours", base_lines, your_lines)
                                    \o SideOps("theirs", base_lines, their_lines)),
                    base_lines, << >>))

\* _three_way_merge: the operations of either side that it does not apply
MergeSkips(base, yours, theirs) ==
    SkippedOps(SortByStartDesc(SideOps("yours", SplitLinesKeep(base), SplitLinesKeep(yours))
                               \o SideOps("theirs", SplitLinesKeep(base),
                                          SplitLinesKeep(theirs))),
               << >>)

\* _three_way_merge returning the agent's text
ThreeWayMergeTakesYours(base, yours, theirs) == yours

\* _three_way_merge
ThreeWayMerge(base, yours, theirs) ==
    MergeLines(SplitLinesKeep(base), SplitLinesKeep(yours), SplitLinesKeep(theirs))

\* _attempt_heuristic_merge; None when no heuristic applies
AttemptHeuristicMerge(base, yours, theirs, overlaps) ==
    LET all_inserts == \A k \in 1..Len(overlaps) :
                           /\ overlaps[k].your_change_type = "insert"
                           /\ overlaps[k].their_change_type = "insert"
    IN  IF all_inserts
        THEN theirs \o <<NL>> \o Strip(Replace(yours, base))
        ELSE None

\* _classify_and_merge without the test for identical overlapping changes
ClassifyAndMergeNoIdentical(base, yours, theirs, your_changes, their_changes, overlaps) ==
    IF overlaps = << >>
    THEN <<"compatible", ThreeWayMerge(base, yours, theirs), 95>>
    ELSE IF IsSubstring(Strip(yours), Strip(theirs)) /\ yours # theirs
    THEN <<"semantic_overlap", theirs, 80>>
    ELSE IF IsSubstring(Strip(theirs), Strip(yours)) /\ yours # theirs
    THEN <<"semantic_overlap", yours, 80>>
    ELSE LET merged == AttemptHeuristicMerge(base, yours, theirs, overlaps)
         IN  IF merged # None /\ merged # << >>
             THEN <<"semantic_overlap", merged, 60>>
             ELSE <<"true_conflict", None, 0>>

\* _classify_and_merge: <<conflict_type, auto_merged_content, confidence in percent>>
ClassifyAndMerge(base, yours, theirs, your_changes, their_changes, overlaps) ==
    IF overlaps = << >>
    THEN <<"compatible", ThreeWayMerge(base, yours, theirs), 95>>
    ELSE IF \A k \in 1..Len(overlaps) : Strip(overlaps[k].yours) = Strip(overlaps[k].theirs)
    THEN <<"compatible", theirs, 100>>
    ELSE IF IsSubstring(Strip(yours), Strip(theirs))
    THEN <<"semantic_overlap", theirs, 80>>
    ELSE IF IsSubstring(Strip(theirs), Strip(yours))
    THEN <<"semantic_overlap", yours, 80>>
    ELSE LET merged == AttemptHeuristicMerge(base, yours, theirs, overlaps)
         IN  IF merged # None /\ merged # << >>
             THEN <<"semantic_overlap", merged, 60>>
             ELSE <<"true_conflict", None, 0>>

(***************************************************************************)
(* The store and the commands                                             *)
(***************************************************************************)

\* Texts are written line by line: T(<<"a", "b">>) is "a\nb".
T(chars) == JoinNL([k \in 1..Len(chars) |-> <<chars[k]>>])

Agents == {"a1", "a2", "a3"}
Pair == {"a1", "a2"}

\* The node the agents work on, and an id no node carries.
NodeIds == {"h1_0"}
MissingId == "h1_9"
AllIds == NodeIds \cup {MissingId}

\* The texts an agent may submit.
Contents ==
    { T(<<"x", "b", "c">>),
      T(<<"a", "b", "z">>),
      T(<<"a", "b", "c", "d">>) }

\* The content a node is added with.
InitContents == { T(<<"a", "b", "c">>) }

\* A wider choice of texts: the contents a node may be added with, the empty
\* one among them, and the texts an agent may submit.
WideInitContents == { << >>, T(<<"a", "b", "c">>) }

WideContents ==
    { << >>,
      T(<<"a", "b", "c">>),
      T(<<"x", "b", "c">>),
      T(<<"y", "b", "c">>) }

Strategies == {"prompt", "auto", "force"}

\* --strategy, where the command line gives none
DefaultStrategy == "prompt"

Resolutions == {"ACCEPT_YOURS", "ACCEPT_THEIRS", "ACCEPT_AUTO_MERGE", "MANUAL_MERGE"}

\* A resolution that is none of these.
UnknownResolution == "ACCEPT_BOTH"

\* The number of commands of a run of three agents, and of two.
MaxSteps == 3
PairSteps == 4

\* edit_history keeps the last 20 entries
HistoryLimit == 20

VARIABLES
    nodes,      \* nodes_db: node id -> node
    history,    \* history_db: <<node id, version>> -> snapshot
    pending,    \* pending_db: <<node id, agent>> -> pending read
    conflicts,  \* meta_db "conflicts:<agent>": agent -> list of stored conflicts
    steps,      \* the number of commands run so far
    adding      \* agent -> the niwa add the agent has under way, and how far it is

vars == <<nodes, history, pending, conflicts, steps, adding>>

\* No niwa add is under way.
NoAdds == [a \in Agents |-> [pc |-> "idle"]]

\* d.pop(key), for a function d
Without(f, key) == [k \in DOMAIN f \ {key} |-> f[k]]

\* seq[-n:] taken as the whole of seq
LastNKeepsAll(seq, n) == seq

\* seq[-n:]
LastN(seq, n) == IF Len(seq) <= n THEN seq ELSE SubSeq(seq, Len(seq) - n + 1, Len(seq))

\* The node written by create_node.
NewNode(node_id, title, content, parent_id, agent_id) ==
    [id |-> node_id, title |-> title, content |-> content, parent_id |-> parent_id,
     children |-> << >>, summary |-> None, version |-> 1, last_agent |-> agent_id,
     edit_history |-> <<[version |-> 1, agent |-> agent_id, summary |-> "Created",
                         prev_version |-> 0]>>]

\* _apply_edit with the increment of node['version'] left out
ApplyEditNodeNoBump(node, new_content, agent_id, edit_summary) ==
    [node EXCEPT
        !.content = new_content,
        !.last_agent = agent_id,
        !.edit_history = LastN(Append(node.edit_history,
                                      [version |-> node.version + 1,
                                       agent |-> agent_id,
                                       summary |-> edit_summary,
                                       prev_version |-> node.version]),
                               HistoryLimit)]

\* _apply_edit: the node as saved
ApplyEditNode(node, new_content, agent_id, edit_summary) ==
    [node EXCEPT
        !.content = new_content,
        !.version = node.version + 1,
        !.last_agent = agent_id,
        !.edit_history = LastN(Append(node.edit_history,
                                      [version |-> node.version + 1,
                                       agent |-> agent_id,
                                       summary |-> edit_summary,
                                       prev_version |-> node.version]),
                               HistoryLimit)]

\* _apply_edit: the snapshot saved under "<id>:v<version>"
ApplyEditHistory(node, new_content, agent_id, edit_summary) ==
    (<<node.id, node.version + 1>> :>
        [content |-> new_content, agent |-> agent_id, summary |-> edit_summary])
    @@ history

\* _analyze_conflict: the overlaps with what _classify_and_merge made of them
Classified(overlaps, cm) ==
    [conflict_type |-> cm[1],
     overlapping_regions |-> overlaps,
     auto_merged_content |-> cm[2],
     auto_merge_confidence |-> cm[3]]

\* _analyze_conflict, from the overlaps on
AnalyzeOverlaps(base, yours, theirs, your_changes, their_changes, overlaps) ==
    Classified(overlaps,
               ClassifyAndMerge(base, yours, theirs, your_changes, their_changes,
                                overlaps))

\* _analyze_conflict, from the changes on
AnalyzeChanges(base, yours, theirs, your_changes, their_changes) ==
    AnalyzeOverlaps(base, yours, theirs, your_changes, their_changes,
                    FindOverlaps(your_changes, their_changes, base))

\* _analyze_conflict, the analysis of the three texts
Analyze(base_content, your_content, current_content) ==
    AnalyzeChanges(base_content, your_content, current_content,
                   ExtractChanges(base_content, your_content),
                   ExtractChanges(base_content, current_content))

\* _analyze_conflict: the ConflictAnalysis returned
ConflictAnalysis(node, base_version, base_content, your_content, your_agent_id, an) ==
    [conflict_type |-> an.conflict_type,
     node_id |-> node.id,
     your_base_version |-> base_version,
     current_version |-> node.version,
     concurrent_edits_count |-> node.version - base_version,
     original_content |-> base_content,
     your_content |-> your_content,
     current_content |-> node.content,
     overlapping_regions |-> an.overlapping_regions,
     your_agent_id |-> your_agent_id,
     other_agents |-> {node.edit_history[k].agent :
                          k \in {j \in 1..Len(node.edit_history) :
                                    /\ node.edit_history[j].version > base_version
                                    /\ node.edit_history[j].agent # your_agent_id}},
     auto_merge_possible |-> an.auto_merged_content # None,
     auto_merged_content |-> an.auto_merged_content,
     auto_merge_confidence |-> an.auto_merge_confidence]

\* The analyses of the texts the agents start from, evaluated once: a table
\* of Analyze (@@ makes the table an explicit function).
Texts == InitContents \cup Contents
Analysis == [k \in Texts \X Contents \X Texts |-> Analyze(k[1], k[2], k[3])] @@ << >>

\* The same table for the wide texts.
WideAnalysis ==
    [k \in WideContents \X WideContents \X WideContents |->
        Analyze(k[1], k[2], k[3])] @@ << >>

\* Analyze, looked up in the tables where they have it
Analyzed(base_content, your_content, current_content) ==
    IF <<base_content, your_content, current_content>> \in DOMAIN Analysis
    THEN Analysis[<<base_content, your_content, current_content>>]
    ELSE IF <<base_content, your_content, current_content>> \in DOMAIN WideAnalysis
    THEN WideAnalysis[<<base_content, your_content, current_content>>]
    ELSE Analyze(base_content, your_content, current_content)

\* _analyze_conflict
AnalyzeConflict(node, base_version, base_content, your_content, your_agent_id) ==
    ConflictAnalysis(node, base_version, base_content, your_content, your_agent_id,
                     Analyzed(base_content, your_content, node.content))

\* edit_node taking an agent without a pending read to start from the node
\* as it was created
EditBaseUnreadFromCreation(node_id, agent_id) ==
    IF <<node_id, agent_id>> \in DOMAIN pending
    THEN [version |-> pending[<<node_id, agent_id>>].read_version,
          content |-> pending[<<node_id, agent_id>>].base_content]
    ELSE [version |-> 1, content |-> CHOOSE c \in InitContents : TRUE]

\* The version and content an edit of node_id by agent_id starts from (edit_node).
EditBase(node_id, agent_id) ==
    IF <<node_id, agent_id>> \in DOMAIN pending
    THEN [version |-> pending[<<node_id, agent_id>>].read_version,
          content |-> pending[<<node_id, agent_id>>].base_content]
    ELSE [version |-> nodes[node_id].version, content |-> nodes[node_id].content]

\* The agent holds a pending read of a version that is no longer current.
StaleRead(node_id, agent_id) ==
    /\ node_id \in DOMAIN nodes
    /\ <<node_id, agent_id>> \in DOMAIN pending
    /\ pending[<<node_id, agent_id>>].read_version # nodes[node_id].version

\* edit_node, once the conflict is analysed: the strategies
EditStale(new_content, resolution_strategy, conflict) ==
    IF resolution_strategy = "force"
    THEN [kind |-> "applied", content |-> new_content, summary |-> "forced"]
    ELSE IF resolution_strategy = "auto" /\ conflict.auto_merge_possible
    THEN [kind |-> "applied", content |-> conflict.auto_merged_content,
          summary |-> "auto-merged"]
    ELSE [kind |-> "conflict", conflict |-> conflict]

\* edit_node analysing a conflict whatever the version the edit starts from
EditFromAlwaysAnalysed(node, base, new_content, agent_id, resolution_strategy) ==
    EditStale(new_content, resolution_strategy,
              AnalyzeConflict(node, base.version, base.content, new_content, agent_id))

\* edit_node, of a node that exists, from the version and content in base
EditFrom(node, base, new_content, agent_id, resolution_strategy) ==
    IF base.version = node.version
    THEN [kind |-> "applied", content |-> new_content, summary |-> "edit"]
    ELSE EditStale(new_content, resolution_strategy,
                   AnalyzeConflict(node, base.version, base.content,
                                   new_content, agent_id))

\* edit_node taking the auto-merge under the prompt strategy too
EditNodeMergesUnprompted(node_id, new_content, agent_id, resolution_strategy) ==
    IF node_id \notin DOMAIN nodes
    THEN [kind |-> "not_found"]
    ELSE EditFrom(nodes[node_id], EditBase(node_id, agent_id), new_content, agent_id,
                  IF resolution_strategy = "prompt" THEN "auto"
                  ELSE resolution_strategy)

\* edit_node: what it decides.  kind is "not_found", "applied" or "conflict".
EditNode(node_id, new_content, agent_id, resolution_strategy) ==
    IF node_id \notin DOMAIN nodes
    THEN [kind |-> "not_found"]
    ELSE EditFrom(nodes[node_id], EditBase(node_id, agent_id), new_content, agent_id,
                  resolution_strategy)

\* store_conflict recording the node's current version as the agent's base
StoreConflictBaseIsCurrent(agent_id, conflict) ==
    LET Other(c) == c.node_id # conflict.node_id
    IN  Append(SelectSeq(conflicts[agent_id], Other),
               [node_id |-> conflict.node_id,
                your_base_version |-> conflict.current_version,
                current_version |-> conflict.current_version,
                your_content |-> conflict.your_content,
                current_content |-> conflict.current_content,
                auto_merge_possible |-> conflict.auto_merge_possible,
                auto_merged_content |-> conflict.auto_merged_content])

\* store_conflict: the agent's list with the conflict added
StoreConflict(agent_id, conflict) ==
    LET Other(c) == c.node_id # conflict.node_id
    IN  Append(SelectSeq(conflicts[agent_id], Other),
               [node_id |-> conflict.node_id,
                your_base_version |-> conflict.your_base_version,
                current_version |-> conflict.current_version,
                your_content |-> conflict.your_content,
                current_content |-> conflict.current_content,
                auto_merge_possible |-> conflict.auto_merge_possible,
                auto_merged_content |-> conflict.auto_merged_content])

\* clear_conflict dropping every conflict the agent holds
ClearConflictOfAgent(agent_id, node_id) == << >>

\* clear_conflict, and the clearing done by read_for_edit
ClearConflict(agent_id, node_id) ==
    LET Other(c) == c.node_id # node_id
    IN  SelectSeq(conflicts[agent_id], Other)

\* conflict=None: the caller passes no ConflictAnalysis
NoConflict == [node_id |-> "None"]

\* resolve_conflict writing the current content back on ACCEPT_THEIRS
ResolveConflictTheirsRewrites(node_id, resolution, agent_id, manual_content, conflict) ==
    IF node_id \notin DOMAIN nodes
    THEN [kind |-> "not_found"]
    ELSE IF conflict # NoConflict /\ nodes[node_id].version # conflict.current_version
    THEN [kind |-> "stale"]
    ELSE IF resolution = "ACCEPT_YOURS"
    THEN IF conflict = NoConflict
         THEN [kind |-> "rejected"]
         ELSE [kind |-> "applied", content |-> conflict.your_content,
               summary |-> "resolved-yours"]
    ELSE IF resolution = "ACCEPT_THEIRS"
    THEN [kind |-> "applied", content |-> nodes[node_id].content,
          summary |-> "resolved-theirs"]
    ELSE IF resolution = "ACCEPT_AUTO_MERGE"
    THEN IF conflict = NoConflict \/ conflict.auto_merged_content \in {None, << >>}
         THEN [kind |-> "rejected"]
         ELSE [kind |-> "applied", content |-> conflict.auto_merged_content,
               summary |-> "resolved-auto"]
    ELSE IF resolution = "MANUAL_MERGE"
    THEN IF manual_content \in {None, << >>}
         THEN [kind |-> "rejected"]
         ELSE [kind |-> "applied", content |-> manual_content,
               summary |-> "resolved-manual"]
    ELSE [kind |-> "rejected"]

\* resolve_conflict: what it decides
ResolveConflict(node_id, resolution, agent_id, manual_content, conflict) ==
    IF node_id \notin DOMAIN nodes
    THEN [kind |-> "not_found"]
    ELSE IF conflict # NoConflict /\ nodes[node_id].version # conflict.current_version
    THEN [kind |-> "stale"]
    ELSE IF resolution = "ACCEPT_YOURS"
    THEN IF conflict = NoConflict
         THEN [kind |-> "rejected"]
         ELSE [kind |-> "applied", content |-> conflict.your_content,
               summary |-> "resolved-yours"]
    ELSE IF resolution = "ACCEPT_THEIRS"
    THEN [kind |-> "kept"]
    ELSE IF resolution = "ACCEPT_AUTO_MERGE"
    THEN IF conflict = NoConflict \/ conflict.auto_merged_content \in {None, << >>}
         THEN [kind |-> "rejected"]
         ELSE [kind |-> "applied", content |-> conflict.auto_merged_content,
               summary |-> "resolved-auto"]
    ELSE IF resolution = "MANUAL_MERGE"
    THEN IF manual_content \in {None, << >>}
         THEN [kind |-> "rejected"]
         ELSE [kind |-> "applied", content |-> manual_content,
               summary |-> "resolved-manual"]
    ELSE [kind |-> "rejected"]

\* dry_run_edit taking no account of the agent's pending read
DryRunEditIgnoresRead(node_id, new_content, agent_id) ==
    IF node_id \notin DOMAIN nodes
    THEN [would_succeed |-> FALSE, reason |-> "node_not_found"]
    ELSE [would_succeed |-> TRUE, reason |-> "no_prior_read"]

\* dry_run_edit: would_succeed and reason of what it returns
DryRunEdit(node_id, new_content, agent_id) ==
    IF node_id \notin DOMAIN nodes
    THEN [would_succeed |-> FALSE, reason |-> "node_not_found"]
    ELSE IF <<node_id, agent_id>> \notin DOMAIN pending
    THEN [would_succeed |-> TRUE, reason |-> "no_prior_read"]
    ELSE IF pending[<<node_id, agent_id>>].read_version = nodes[node_id].version
    THEN [would_succeed |-> TRUE, reason |-> "no_conflict"]
    ELSE [would_succeed |-> FALSE, reason |-> "conflict"]

\* niwa dry-run <node> <content> --agent <agent>: dry_run_edit, which opens a
\* read-only transaction; the store is left as it is.
CmdDryRun(agent, node_id, content) ==
    /\ DryRunEdit(node_id, content, agent).reason
           \in {"node_not_found", "no_prior_read", "no_conflict", "conflict"}
    /\ UNCHANGED <<nodes, history, pending, conflicts>>

\* get_version_content: the content of the snapshot "<id>:v<version>", None
\* when there is no such snapshot
GetVersionContent(node_id, version) ==
    IF <<node_id, version>> \in DOMAIN history
    THEN history[<<node_id, version>>].content
    ELSE None

\* niwa rollback <node> <version> --agent <agent>: get_version_content, and
\* nothing more when `not old_content`; else read_for_edit, which records
\* the agent's read of the current version and clears its conflict for the
\* node, then edit_node with the old content under force, which finds the
\* read current, consumes it and applies the edit.
CmdRollback(agent, node_id, version) ==
    \E old_content \in {GetVersionContent(node_id, version)} :
        IF old_content \in {None, << >>}
        THEN UNCHANGED <<nodes, history, pending, conflicts>>
        ELSE /\ nodes' = [nodes EXCEPT ![node_id] =
                    ApplyEditNode(nodes[node_id], old_content, agent, "rollback")]
             /\ history' = ApplyEditHistory(nodes[node_id], old_content, agent,
                                            "rollback")
             /\ pending' = Without(pending, <<node_id, agent>>)
             /\ conflicts' = [conflicts EXCEPT ![agent] = ClearConflict(agent, node_id)]

\* niwa read leaving a pending read the agent holds already as it is
CmdReadKeepsFirstRead(agent, node_id) ==
    IF node_id \notin DOMAIN nodes
    THEN UNCHANGED <<nodes, history, pending, conflicts>>
    ELSE /\ pending' = pending @@ (<<node_id, agent>> :>
                            [read_version |-> nodes[node_id].version,
                             base_content |-> nodes[node_id].content])
         /\ conflicts' = [conflicts EXCEPT ![agent] = ClearConflict(agent, node_id)]
         /\ UNCHANGED <<nodes, history>>

\* niwa read dropping every conflict the agent holds
CmdReadClearsAll(agent, node_id) ==
    IF node_id \notin DOMAIN nodes
    THEN UNCHANGED <<nodes, history, pending, conflicts>>
    ELSE /\ pending' = (<<node_id, agent>> :>
                            [read_version |-> nodes[node_id].version,
                             base_content |-> nodes[node_id].content]) @@ pending
         /\ conflicts' = [conflicts EXCEPT ![agent] = << >>]
         /\ UNCHANGED <<nodes, history>>

\* niwa read <node> --agent <agent>: read_for_edit
CmdRead(agent, node_id) ==
    IF node_id \notin DOMAIN nodes
    THEN UNCHANGED <<nodes, history, pending, conflicts>>
    ELSE /\ pending' = (<<node_id, agent>> :>
                            [read_version |-> nodes[node_id].version,
                             base_content |-> nodes[node_id].content]) @@ pending
         /\ conflicts' = [conflicts EXCEPT ![agent] = ClearConflict(agent, node_id)]
         /\ UNCHANGED <<nodes, history>>

\* niwa edit leaving the agent's pending read in place when the edit is refused
CmdEditKeepsReadOnConflict(agent, node_id, content, strategy) ==
    \E r \in {EditNode(node_id, content, agent, strategy)} :
        IF r.kind = "not_found"
        THEN UNCHANGED <<nodes, history, pending, conflicts>>
        ELSE IF r.kind = "applied"
        THEN /\ pending' = Without(pending, <<node_id, agent>>)
             /\ nodes' = [nodes EXCEPT ![node_id] =
                    ApplyEditNode(nodes[node_id], r.content, agent, r.summary)]
             /\ history' = ApplyEditHistory(nodes[node_id], r.content, agent, r.summary)
             /\ UNCHANGED conflicts
        ELSE /\ conflicts' = [conflicts EXCEPT ![agent] =
                    StoreConflict(agent, r.conflict)]
             /\ UNCHANGED <<nodes, history, pending>>

\* niwa edit incrementing the version the agent read, not the version stored
CmdEditFromReadVersion(agent, node_id, content, strategy) ==
    \E r \in {EditNode(node_id, content, agent, strategy)} :
        IF r.kind = "not_found"
        THEN UNCHANGED <<nodes, history, pending, conflicts>>
        ELSE \E read \in {[nodes[node_id] EXCEPT
                                !.version = EditBase(node_id, agent).version]} :
             /\ pending' = Without(pending, <<node_id, agent>>)
             /\ IF r.kind = "applied"
                THEN /\ nodes' = [nodes EXCEPT ![node_id] =
                            ApplyEditNode(read, r.content, agent, r.summary)]
                     /\ history' = ApplyEditHistory(read, r.content, agent, r.summary)
                     /\ UNCHANGED conflicts
                ELSE /\ conflicts' = [conflicts EXCEPT ![agent] =
                            StoreConflict(agent, r.conflict)]
                     /\ UNCHANGED <<nodes, history>>

\* niwa edit <node> <content> --agent <agent> --strategy <strategy>:
\* edit_node, then store_conflict when a conflict comes back
CmdEdit(agent, node_id, content, strategy) ==
    \E r \in {EditNode(node_id, content, agent, strategy)} :
        IF r.kind = "not_found"
        THEN UNCHANGED <<nodes, history, pending, conflicts>>
        ELSE /\ pending' = Without(pending, <<node_id, agent>>)
             /\ IF r.kind = "applied"
                THEN /\ nodes' = [nodes EXCEPT ![node_id] =
                            ApplyEditNode(nodes[node_id], r.content, agent, r.summary)]
                     /\ history' = ApplyEditHistory(nodes[node_id], r.content, agent,
                                                    r.summary)
                     /\ UNCHANGED conflicts
                ELSE /\ conflicts' = [conflicts EXCEPT ![agent] =
                            StoreConflict(agent, r.conflict)]
                     /\ UNCHANGED <<nodes, history>>

\* The step is a niwa edit by an agent holding a stale read; the edit takes
\* the agent's pending read away.
StaleEdit(agent, node_id, content, strategy) ==
    /\ StaleRead(node_id, agent)
    /\ <<node_id, agent>> \notin DOMAIN pending'
    /\ CmdEdit(agent, node_id, content, strategy)

\* _analyze_conflict: the changes of the edit and the changes landed since
\* the version the agent read, both against the content the agent read, and
\* the regions where they overlap
YourChanges(node_id, agent_id, content) ==
    ExtractChanges(EditBase(node_id, agent_id).content, content)

TheirChanges(node_id, agent_id) ==
    ExtractChanges(EditBase(node_id, agent_id).content, nodes[node_id].content)

Overlaps(node_id, agent_id, content) ==
    FindOverlaps(YourChanges(node_id, agent_id, content),
                 TheirChanges(node_id, agent_id),
                 EditBase(node_id, agent_id).content)

\* niwa resolve is given a resolution that is not one of valid_resolutions,
\* or MANUAL_MERGE without content: it returns before resolve_conflict is called.
ResolveRefusedAtOnce(resolution, manual_content) ==
    \/ resolution \notin Resolutions
    \/ resolution = "MANUAL_MERGE" /\ manual_content \in {None, << >>}

\* niwa resolve dropping the agent's stored conflict whatever the result
CmdResolveAlwaysClears(agent, node_id, resolution, manual_content) ==
    /\ UNCHANGED pending
    /\ conflicts' = [conflicts EXCEPT ![agent] = ClearConflict(agent, node_id)]
    /\ IF ResolveRefusedAtOnce(resolution, manual_content)
       THEN UNCHANGED <<nodes, history>>
       ELSE \E r \in {ResolveConflict(node_id, resolution, agent,
                                      IF resolution = "MANUAL_MERGE"
                                      THEN manual_content ELSE None,
                                      NoConflict)} :
                IF r.kind = "applied"
                THEN /\ nodes' = [nodes EXCEPT ![node_id] =
                            ApplyEditNode(nodes[node_id], r.content, agent, r.summary)]
                     /\ history' = ApplyEditHistory(nodes[node_id], r.content, agent,
                                                    r.summary)
                ELSE UNCHANGED <<nodes, history>>

\* niwa resolve <node> <resolution> [<content>] --agent <agent>:
\* resolve_conflict without a conflict object, then clear_conflict on success.
\* An unknown resolution and MANUAL_MERGE without content are refused before
\* resolve_conflict is called.
CmdResolve(agent, node_id, resolution, manual_content) ==
    IF ResolveRefusedAtOnce(resolution, manual_content)
    THEN UNCHANGED <<nodes, history, pending, conflicts>>
    ELSE \E r \in {ResolveConflict(node_id, resolution, agent,
                                   IF resolution = "MANUAL_MERGE" THEN manual_content
                                   ELSE None,
                                   NoConflict)} :
        /\ UNCHANGED pending
        /\ IF r.kind = "applied"
           THEN /\ nodes' = [nodes EXCEPT ![node_id] =
                       ApplyEditNode(nodes[node_id], r.content, agent, r.summary)]
                /\ history' = ApplyEditHistory(nodes[node_id], r.content, agent, r.summary)
           ELSE UNCHANGED <<nodes, history>>
        /\ IF r.kind \in {"applied", "kept"}
           THEN conflicts' = [conflicts EXCEPT ![agent] = ClearConflict(agent, node_id)]
           ELSE UNCHANGED conflicts

\* One more command of a run of at most `bound` commands.
Step(bound) == steps < bound /\ steps' = steps + 1 /\ UNCHANGED adding

\* After niwa init, niwa add "<title>" "<content>" --agent a1 and a niwa read
\* of the new node by each agent of `readers`.
InitAfterReads(readers) ==
    /\ \E c \in InitContents :
           /\ nodes = [n \in NodeIds |-> NewNode(n, "Section", c, "root", "a1")]
           /\ pending = [k \in NodeIds \X readers |->
                            [read_version |-> 1, base_content |-> c]]
    /\ history = << >>
    /\ conflicts = [a \in Agents |-> << >>]
    /\ steps = 0
    /\ adding = NoAdds

\* The inputs tried on a node id: one of each suffices where no node is found.
ContentsFor(n) == IF n \in NodeIds THEN Contents ELSE InitContents
StrategiesFor(n) == IF n \in NodeIds THEN Strategies ELSE {"prompt"}
ResolutionsFor(n) ==
    IF n \in NodeIds THEN Resolutions \cup {UnknownResolution} ELSE {"ACCEPT_THEIRS"}

ReadBy(agents) == \E a \in agents, n \in AllIds : CmdRead(a, n)

EditBy(agents) ==
    \E a \in agents, n \in AllIds :
        \E c \in ContentsFor(n), s \in StrategiesFor(n) : CmdEdit(a, n, c, s)

ResolveBy(agents) ==
    \E a \in agents, n \in AllIds :
        \E r \in ResolutionsFor(n) :
            \E c \in (IF r = "MANUAL_MERGE" THEN Contents \cup {None} ELSE {None}) :
                CmdResolve(a, n, r, c)

\* Three agents, short runs.
Init == InitAfterReads(Agents)

Read == Step(MaxSteps) /\ ReadBy(Agents)

Edit == Step(MaxSteps) /\ EditBy(Agents)

Resolve == Step(MaxSteps) /\ ResolveBy(Agents)

Next == Read \/ Edit \/ Resolve

Spec == Init /\ [][Next]_vars

\* Two agents, runs of one more command.
InitPair == InitAfterReads(Pair)

ReadPair == Step(PairSteps) /\ ReadBy(Pair)

EditPair == Step(PairSteps) /\ EditBy(Pair)

ResolvePair == Step(PairSteps) /\ ResolveBy(Pair)

NextPair == ReadPair \/ EditPair \/ ResolvePair

SpecPair == InitPair /\ [][NextPair]_vars

\* Three agents that give no --strategy and resolve with ACCEPT_YOURS or
\* ACCEPT_THEIRS, runs long enough for two refused agents to resolve in turn.
TrioSteps == 5

TrioResolutions == {"ACCEPT_YOURS", "ACCEPT_THEIRS"}

ReadTrio == Step(TrioSteps) /\ \E a \in Agents, n \in NodeIds : CmdRead(a, n)

EditTrio ==
    Step(TrioSteps) /\ \E a \in Agents, n \in NodeIds :
                           \E c \in Contents : CmdEdit(a, n, c, DefaultStrategy)

ResolveTrio ==
    Step(TrioSteps) /\ \E a \in Agents, n \in NodeIds :
                           \E r \in TrioResolutions : CmdResolve(a, n, r, None)

NextTrio == ReadTrio \/ EditTrio \/ ResolveTrio

SpecTrio == Init /\ [][NextTrio]_vars

\* Two nodes, each added by a1 and read by every agent; the agents read and
\* edit them, giving no --strategy.
TwoIds == {"h1_0", "h1_1"}

TwoContents == { T(<<"x", "b", "c">>) }

TwoSteps == 6

InitTwoNodes ==
    /\ \E c \in InitContents :
           /\ nodes = [n \in TwoIds |-> NewNode(n, "Section", c, "root", "a1")]
           /\ pending = [k \in TwoIds \X Agents |->
                            [read_version |-> 1, base_content |-> c]]
    /\ history = << >>
    /\ conflicts = [a \in Agents |-> << >>]
    /\ steps = 0
    /\ adding = NoAdds

ReadTwoNodes == Step(TwoSteps) /\ \E a \in Agents, n \in TwoIds : CmdRead(a, n)

EditTwoNodes ==
    Step(TwoSteps) /\ \E a \in Agents, n \in TwoIds :
                          \E c \in TwoContents : CmdEdit(a, n, c, DefaultStrategy)

ResolveTwoNodes ==
    Step(TwoSteps) /\ \E a \in Agents, n \in TwoIds :
                          CmdResolve(a, n, "ACCEPT_THEIRS", None)

NextTwoNodes == ReadTwoNodes \/ EditTwoNodes \/ ResolveTwoNodes

SpecTwoNodes == InitTwoNodes /\ [][NextTwoNodes]_vars

\* The two nodes again, with two agents that give no --strategy and resolve
\* with every resolution, MANUAL_MERGE with and without content.
TwoPairSteps == 5

InitTwoPair ==
    /\ \E c \in InitContents :
           /\ nodes = [n \in TwoIds |-> NewNode(n, "Section", c, "root", "a1")]
           /\ pending = [k \in TwoIds \X Pair |->
                            [read_version |-> 1, base_content |-> c]]
    /\ history = << >>
    /\ conflicts = [a \in Agents |-> << >>]
    /\ steps = 0
    /\ adding = NoAdds

ReadTwoPair == Step(TwoPairSteps) /\ \E a \in Pair, n \in TwoIds : CmdRead(a, n)

EditTwoPair ==
    Step(TwoPairSteps) /\ \E a \in Pair, n \in TwoIds :
                              \E c \in TwoContents : CmdEdit(a, n, c, DefaultStrategy)

ResolveTwoPair ==
    Step(TwoPairSteps) /\ \E a \in Pair, n \in TwoIds, r \in Resolutions :
                              \E c \in TwoContents \cup {None} : CmdResolve(a, n, r, c)

NextTwoPair == ReadTwoPair \/ EditTwoPair \/ ResolveTwoPair

SpecTwoPair == InitTwoPair /\ [][NextTwoPair]_vars

\* Two agents whose texts are the wide ones: the empty text, the text the
\* node was added with and two texts that change the same line; every
\* strategy, every resolution and the refused ones, and niwa dry-run.
WideSteps == 3

InitWide ==
    /\ \E c \in WideInitContents :
           /\ nodes = [n \in NodeIds |-> NewNode(n, "Section", c, "root", "a1")]
           /\ pending = [k \in NodeIds \X Pair |->
                            [read_version |-> 1, base_content |-> c]]
    /\ history = << >>
    /\ conflicts = [a \in Agents |-> << >>]
    /\ steps = 0
    /\ adding = NoAdds

ReadWide == Step(WideSteps) /\ \E a \in Pair, n \in NodeIds : CmdRead(a, n)

EditWide ==
    Step(WideSteps) /\ \E a \in Pair, n \in NodeIds :
                           \E c \in WideContents, s \in Strategies : CmdEdit(a, n, c, s)

ResolveWide ==
    Step(WideSteps) /\ \E a \in Pair, n \in NodeIds :
                           \E r \in Resolutions \cup {UnknownResolution} :
                               \E c \in (IF r = "MANUAL_MERGE"
                                         THEN WideContents \cup {None} ELSE {None}) :
                                   CmdResolve(a, n, r, c)

DryRunWide ==
    Step(WideSteps) /\ \E a \in Pair, n \in AllIds :
                           \E c \in WideContents : CmdDryRun(a, n, c)

NextWide == ReadWide \/ EditWide \/ ResolveWide \/ DryRunWide

SpecWide == InitWide /\ [][NextWide]_vars

\* Two agents that read, edit with no --strategy and roll back a node added
\* empty or with a text; the texts they submit are the empty one and one other.
RollbackSteps == 4

RollbackContents == { << >>, T(<<"x", "b", "c">>) }

RollbackVersions == 1..(RollbackSteps + 1)

ReadRollback == Step(RollbackSteps) /\ \E a \in Pair, n \in NodeIds : CmdRead(a, n)

EditRollback ==
    Step(RollbackSteps) /\ \E a \in Pair, n \in NodeIds :
                               \E c \in RollbackContents : CmdEdit(a, n, c, DefaultStrategy)

Rollback ==
    Step(RollbackSteps) /\ \E a \in Pair, n \in AllIds :
                               \E v \in RollbackVersions : CmdRollback(a, n, v)

NextRollback == ReadRollback \/ EditRollback \/ Rollback

SpecRollback == InitWide /\ [][NextRollback]_vars

\* The library class Niwa of niwa.py, whose methods are those of the class
\* the command line uses, with the ConflictAnalysis of models.py.
\* The fields of the dataclass ConflictAnalysis of models.py.
ConflictAnalysisFields ==
    {"conflict_type", "node_id", "node_title", "your_base_version",
     "current_version", "concurrent_edits_count", "original_content",
     "your_content", "current_content", "your_changes", "their_changes",
     "overlapping_regions", "your_agent_id", "other_agents",
     "their_edit_summaries", "auto_merge_possible", "auto_merged_content"}

\* The keywords _analyze_conflict passes to ConflictAnalysis(...).
AnalyzeConflictKeywords ==
    ConflictAnalysisFields \cup {"auto_merge_confidence"}

\* Niwa.edit_node of niwa.py: what it decides.  kind is "not_found",
\* "applied", "conflict", or "error" when ConflictAnalysis(...) raises
\* TypeError on a keyword that is not a field.
LibEditNode(node_id, new_content, agent_id, resolution_strategy) ==
    IF node_id \notin DOMAIN nodes
    THEN [kind |-> "not_found"]
    ELSE IF EditBase(node_id, agent_id).version = nodes[node_id].version
    THEN [kind |-> "applied", content |-> new_content, summary |-> "edit"]
    ELSE IF ~(AnalyzeConflictKeywords \subseteq ConflictAnalysisFields)
    THEN [kind |-> "error"]
    ELSE EditFrom(nodes[node_id], EditBase(node_id, agent_id), new_content,
                  agent_id, resolution_strategy)

\* A call of Niwa.edit_node of niwa.py.  The exception leaves the write
\* transaction without a commit: the pending read is kept.  The method
\* stores no conflict.
LibEdit(agent, node_id, content, strategy) ==
    \E r \in {LibEditNode(node_id, content, agent, strategy)} :
        IF r.kind \in {"not_found", "error"}
        THEN UNCHANGED <<nodes, history, pending, conflicts>>
        ELSE /\ pending' = Without(pending, <<node_id, agent>>)
             /\ UNCHANGED conflicts
             /\ IF r.kind = "applied"
                THEN /\ nodes' = [nodes EXCEPT ![node_id] =
                            ApplyEditNode(nodes[node_id], r.content, agent, r.summary)]
                     /\ history' = ApplyEditHistory(nodes[node_id], r.content, agent,
                                                    r.summary)
                ELSE UNCHANGED <<nodes, history>>

LibSteps == 4

ReadLib == Step(LibSteps) /\ \E a \in Agents, n \in AllIds : CmdRead(a, n)

EditLib ==
    Step(LibSteps) /\ \E a \in Agents, n \in AllIds :
                          \E c \in Contents, s \in Strategies : LibEdit(a, n, c, s)

NextLib == ReadLib \/ EditLib

SpecLib == Init /\ [][NextLib]_vars

\* One agent that reads and edits the node, always with the same text, more
\* often than edit_history has room for.
LongSteps == 22

ReadLong == Step(LongSteps) /\ \E n \in NodeIds : CmdRead("a1", n)

EditLong ==
    Step(LongSteps) /\ \E n \in NodeIds, c \in TwoContents :
                           CmdEdit("a1", n, c, DefaultStrategy)

NextLong == ReadLong \/ EditLong

SpecLong == Init /\ [][NextLong]_vars

\* The tree of nodes.  A title is a sequence of characters.
RootId == "root"

\* parent_id=None, and every parent_id that `if parent_id:` takes for none
NoParent == ""

RootTitle == <<"D", "o", "c">>

Titles == { <<"A">>, <<"a">>, <<"B">> }

\* str.lower(), on the characters of Titles
LowerChar(ch) == CASE ch = "A" -> "a" [] ch = "B" -> "b" [] ch = "D" -> "d" [] OTHER -> ch

Lower(title) == [i \in 1..Len(title) |-> LowerChar(title[i])]

\* The elements of a list
Range(seq) == {seq[i] : i \in 1..Len(seq)}

\* create_node: the store it leaves and whether it reports success.  The
\* node is put first; the parent is then looked up in the same transaction.
CreateNode(node_id, title, content, parent_id, agent_id) ==
    IF node_id \in DOMAIN nodes
    THEN [success |-> FALSE, nodes |-> nodes]
    ELSE \* the node put, then the parent's children list
         LET put == (node_id :> NewNode(node_id, title, content, parent_id, agent_id))
                    @@ nodes
         IN  [success |-> TRUE,
              nodes |-> IF parent_id # NoParent /\ parent_id \in DOMAIN put
                                  /\ node_id \notin Range(put[parent_id].children)
                        THEN [put EXCEPT ![parent_id].children = Append(@, node_id)]
                        ELSE put]

\* niwa init: create_node('root', 'root', 'Document', '', 0, None, 'system')
InitTree ==
    /\ nodes = (RootId :> NewNode(RootId, RootTitle, << >>, NoParent, "system"))
    /\ history = << >>
    /\ pending = << >>
    /\ conflicts = [a \in Agents |-> << >>]
    /\ steps = 0
    /\ adding = NoAdds

\* Calls of Niwa.create_node by two agents, with ids and parents of the
\* caller's choice.
CreateIds == {"h1_0", "h1_1", "h2_0"}

CreateParents == {NoParent, RootId, "h1_0", MissingId}

CreateSteps == 3

Create ==
    /\ Step(CreateSteps)
    /\ \E a \in Pair, n \in CreateIds, t \in Titles, p \in CreateParents :
           /\ nodes' = CreateNode(n, t, << >>, p, a).nodes
           /\ UNCHANGED <<history, pending, conflicts>>

NextCreate == Create

SpecCreate == InitTree /\ [][NextCreate]_vars

\* niwa add "<title>" --parent <parent> --agent <agent>, run by two agents at
\* once.  The command looks the parent and the title up, asks for the next
\* id and creates the node, each in a transaction of its own, so the
\* commands of other agents may come in between.
\* The ids next_node_id hands out, by level.
AddIds == << <<"h1_0", "h1_1", "h1_2">>, <<"h2_0", "h2_1", "h2_2">> >>

AddParents == {RootId, "h1_0", MissingId}

AddSteps == 6

\* No node: what find_child_by_title returns when it finds none
NoNode == ""

\* parent_node.get('level', 0): the level niwa add gave the node
LevelOf(node_id) ==
    IF node_id = RootId
    THEN 0
    ELSE CHOOSE l \in 1..Len(AddIds) : node_id \in Range(AddIds[l])

\* next_node_id: "h<level>_<max index in use + 1>"
NextNodeId(level) ==
    LET used == {i \in 1..Len(AddIds[level]) : AddIds[level][i] \in DOMAIN nodes}
    IN  AddIds[level][IF used = {}
                      THEN 1
                      ELSE (CHOOSE i \in used : \A j \in used : j <= i) + 1]

\* find_child_by_title: the first child of the parent whose title is the
\* given one, both in lower case
FindChildByTitle(parent_id, title) ==
    IF parent_id \notin DOMAIN nodes
    THEN NoNode
    ELSE LET children == nodes[parent_id].children
             found == {i \in 1..Len(children) :
                          /\ children[i] \in DOMAIN nodes
                          /\ Lower(nodes[children[i]].title) = Lower(title)}
         IN  IF found = {}
             THEN NoNode
             ELSE children[CHOOSE i \in found : \A j \in found : i <= j]

\* niwa add, to the end of the duplicate title check: the command ends
\* there when the parent is not found or the title is taken.
AddLookup(agent, title, parent_id) ==
    /\ adding[agent].pc = "idle"
    /\ UNCHANGED <<nodes, history, pending, conflicts>>
    /\ IF parent_id \notin DOMAIN nodes \/ FindChildByTitle(parent_id, title) # NoNode
       THEN UNCHANGED adding
       ELSE adding' = [adding EXCEPT ![agent] =
                [pc |-> "checked", title |-> title, parent_id |-> parent_id]]

\* niwa add: next_node_id for the level below the parent's
AddNumber(agent) ==
    /\ adding[agent].pc = "checked"
    /\ UNCHANGED <<nodes, history, pending, conflicts>>
    /\ adding' = [adding EXCEPT ![agent] =
           [pc |-> "numbered", title |-> adding[agent].title,
            parent_id |-> adding[agent].parent_id,
            node_id |-> NextNodeId(LevelOf(adding[agent].parent_id) + 1)]]

\* niwa add: create_node, which ends the command
AddCreate(agent) ==
    /\ adding[agent].pc = "numbered"
    /\ nodes' = CreateNode(adding[agent].node_id, adding[agent].title, << >>,
                           adding[agent].parent_id, agent).nodes
    /\ adding' = [adding EXCEPT ![agent] = [pc |-> "idle"]]
    /\ UNCHANGED <<history, pending, conflicts>>

\* One more transaction of a run of at most `bound` of them.
AddStep(bound) == steps < bound /\ steps' = steps + 1

LookupAdd ==
    AddStep(AddSteps) /\ \E a \in Pair, t \in Titles, p \in AddParents : AddLookup(a, t, p)

NumberAdd == AddStep(AddSteps) /\ \E a \in Pair : AddNumber(a)

CreateAdd == AddStep(AddSteps) /\ \E a \in Pair : AddCreate(a)

NextAdd == LookupAdd \/ NumberAdd \/ CreateAdd

SpecAdd == InitTree /\ [][NextAdd]_vars

\* The --agent argument.  An agent name is a sequence of characters.
Letters ==
    {"a", "b", "c", "d", "e", "f", "g", "h", "i", "j", "k", "l", "m",
     "n", "o", "p", "q", "r", "s", "t", "u", "v", "w", "x", "y", "z",
     "A", "B", "C", "D", "E", "F", "G", "H", "I", "J", "K", "L", "M",
     "N", "O", "P", "Q", "R", "S", "T", "U", "V", "W", "X", "Y", "Z"}

Digits == {"0", "1", "2", "3", "4", "5", "6", "7", "8", "9"}

\* [a-zA-Z0-9_-]
NameChars == Letters \cup Digits \cup {"_", "-"}

\* max 50 chars
MaxNameLen == 50

DefaultAgent ==
    <<"d", "e", "f", "a", "u", "l", "t", "_", "a", "g", "e", "n", "t">>

\* re.match(r'^[a-zA-Z0-9_-]+$', agent_id): one or more characters of the
\* class, then the end of the string; `$` also matches just before a
\* newline that ends the string.
MatchesNamePattern(agent_id) ==
    \E k \in 1..Len(agent_id) :
        /\ \A i \in 1..k : agent_id[i] \in NameChars
        /\ \/ k = Len(agent_id)
           \/ k = Len(agent_id) - 1 /\ agent_id[Len(agent_id)] = NL

\* validate_agent_name: whether it returns True
ValidateAgentName(agent_id) ==
    /\ agent_id # << >>
    /\ Len(agent_id) <= MaxNameLen
    /\ agent_id # DefaultAgent
    /\ MatchesNamePattern(agent_id)

\* main: the command goes on to the store with this --agent
AgentAccepted(agent_id) == agent_id = DefaultAgent \/ ValidateAgentName(agent_id)

\* The names given as --agent: a good one, the same with a newline after it,
\* with a space in it and with an @ after it, the empty one, one of 51
\* characters, and none (the default).
AgentNames ==
    { <<"a", "1">>, <<"a", "1", NL>>, <<"a", " ", "1">>, <<"a", "1", "@">>, << >>,
      [i \in 1..(MaxNameLen + 1) |-> "a"], DefaultAgent }

NameSteps == 3

\* niwa init and niwa add by a1; nobody has read the node.
InitNames ==
    /\ \E c \in InitContents :
           nodes = [n \in NodeIds |-> NewNode(n, "Section", c, "root", <<"a", "1">>)]
    /\ history = << >>
    /\ pending = << >>
    /\ conflicts = [a \in AgentNames |-> << >>]
    /\ steps = 0
    /\ adding = NoAdds

ReadNamed ==
    Step(NameSteps) /\ \E a \in AgentNames, n \in NodeIds :
                           IF AgentAccepted(a)
                           THEN CmdRead(a, n)
                           ELSE UNCHANGED <<nodes, history, pending, conflicts>>

EditNamed ==
    Step(NameSteps) /\ \E a \in AgentNames, n \in NodeIds, c \in TwoContents :
                           IF AgentAccepted(a)
                           THEN CmdEdit(a, n, c, DefaultStrategy)
                           ELSE UNCHANGED <<nodes, history, pending, conflicts>>

NextNamed == ReadNamed \/ EditNamed

SpecNamed == InitNames /\ [][NextNamed]_vars

\* update_title writing the next version number with the title
UpdateTitleBumpsVersion(node_id, new_title) ==
    IF node_id \notin DOMAIN nodes
    THEN nodes
    ELSE [nodes EXCEPT ![node_id] =
             [@ EXCEPT !.title = new_title, !.version = @ + 1]]

\* update_title: the nodes store afterwards ("Node not found" leaves it)
UpdateTitle(node_id, new_title) ==
    IF node_id \notin DOMAIN nodes
    THEN nodes
    ELSE [nodes EXCEPT ![node_id] = [@ EXCEPT !.title = new_title]]

\* update_summary: the nodes store afterwards
UpdateSummary(node_id, summary) ==
    IF node_id \notin DOMAIN nodes
    THEN nodes
    ELSE [nodes EXCEPT ![node_id] = [@ EXCEPT !.summary = summary]]

\* niwa title <node> "<title>"
CmdTitle(node_id, title) ==
    /\ nodes' = UpdateTitle(node_id, title)
    /\ UNCHANGED <<history, pending, conflicts>>

\* niwa summarize <node> "<summary>"
CmdSummarize(node_id, summary) ==
    /\ nodes' = UpdateSummary(node_id, summary)
    /\ UNCHANGED <<history, pending, conflicts>>

\* Three agents that have read the node read it and edit it, giving no
\* --strategy, while its title and summary are rewritten.
TitledSteps == 4

NewTitles == {"Renamed"}

NewSummaries == {<<"S">>}

ReadTitled == Step(TitledSteps) /\ \E a \in Agents, n \in NodeIds : CmdRead(a, n)

EditTitled ==
    Step(TitledSteps) /\ \E a \in Agents, n \in NodeIds :
                             \E c \in Contents : CmdEdit(a, n, c, DefaultStrategy)

Title == Step(TitledSteps) /\ \E n \in AllIds, t \in NewTitles : CmdTitle(n, t)

Summarize ==
    Step(TitledSteps) /\ \E n \in AllIds, t \in NewSummaries : CmdSummarize(n, t)

NextTitled == ReadTitled \/ EditTitled \/ Title \/ Summarize

SpecTitled == Init /\ [][NextTitled]_vars

\* cleanup_stale_reads: the pending reads left once those read before the
\* cutoff, the keys in `stale`, are deleted
CleanupStaleReads(stale) == [k \in DOMAIN pending \ stale |-> pending[k]]

\* cleanup_stale_conflicts: every agent's list without the conflicts stored
\* before the cutoff, the records in `stale`
CleanupStaleConflicts(stale) ==
    LET Fresh(c) == c \notin stale
    IN  [a \in DOMAIN conflicts |-> SelectSeq(conflicts[a], Fresh)]

\* niwa cleanup --max-age <seconds>: cleanup_stale_reads, then
\* cleanup_stale_conflicts with 24 times the age.  Which entries are older
\* than the cutoffs depends on the clock: stale_reads and stale_conflicts say
\* whether the entries of each store are.
CmdCleanup(stale_reads, stale_conflicts) ==
    /\ pending' = CleanupStaleReads(IF stale_reads THEN DOMAIN pending ELSE {})
    /\ conflicts' = CleanupStaleConflicts(
                        IF stale_conflicts
                        THEN UNION {Range(conflicts[a]) : a \in DOMAIN conflicts}
                        ELSE {})
    /\ UNCHANGED <<nodes, history>>

\* Three agents that have read the node read it, edit it giving no
\* --strategy, and run niwa cleanup.
CleanSteps == 3

ReadClean == Step(CleanSteps) /\ \E a \in Agents, n \in NodeIds : CmdRead(a, n)

EditClean ==
    Step(CleanSteps) /\ \E a \in Agents, n \in NodeIds :
                            \E c \in Contents : CmdEdit(a, n, c, DefaultStrategy)

Cleanup ==
    Step(CleanSteps) /\ \E stale_reads \in BOOLEAN, stale_conflicts \in BOOLEAN :
                            CmdCleanup(stale_reads, stale_conflicts)

NextClean == ReadClean \/ EditClean \/ Cleanup

SpecClean == Init /\ [][NextClean]_vars

(***************************************************************************)
(* The claims                                                              *)
(***************************************************************************)

\* The summaries of the edits recorded in a node's edit_history.
Summaries(node_id) ==
    {nodes[node_id].edit_history[k].summary :
        k \in 1..Len(nodes[node_id].edit_history)}

\* C1: every step that changes a node's content, adds to its edit history or
\* saves a snapshot of it (a direct, auto-merged or forced edit, or a
\* resolution that writes content) sets the node's version to its previous
\* version plus 1; no step lowers the version or raises it by more than 1.
C1_VersionPlusOne ==
    [][\A n \in NodeIds :
          /\ nodes'[n].version \in {nodes[n].version, nodes[n].version + 1}
          /\ (\/ nodes'[n].content # nodes[n].content
              \/ nodes'[n].edit_history # nodes[n].edit_history
              \/ history' # history)
             => nodes'[n].version = nodes[n].version + 1]_vars

\* C1 witness: a direct edit, an auto-merge and a forced edit have landed,
\* taking the node from version 1 to version 4.
C1_Witness ==
    \E n \in NodeIds :
        /\ nodes[n].version = 4
        /\ {"edit", "auto-merged", "forced"} \subseteq Summaries(n)

\* The strategies that do not overwrite.
Careful == {"prompt", "auto"}

\* C2: when an edit by an agent holding a stale read is applied under a
\* strategy other than force, the new lines of every change landed since the
\* version the agent read still stand together in the resulting content.
C2_NoLandedChangeLost ==
    [][\A a \in Agents, n \in NodeIds, c \in Contents, s \in Careful :
          (StaleEdit(a, n, c, s) /\ nodes'[n].version = nodes[n].version + 1)
          => LET result == SplitLines(nodes'[n].content)
                 theirs == TheirChanges(n, a)
             IN  \A k \in 1..Len(theirs) :
                    \E i \in 0..Len(result) :
                        Slice(result, i, i + Len(theirs[k].new_lines))
                            = theirs[k].new_lines]_vars

\* C3: an edit by an agent holding a stale read whose changes overlap the
\* changes landed since the version it read is not applied under any
\* strategy but force: the node and the snapshots stay as they are.
C3_OverlapNeverMerged ==
    [][\A a \in Agents, n \in NodeIds, c \in Contents, s \in Careful :
          (StaleEdit(a, n, c, s) /\ Overlaps(n, a, c) # << >>)
          => nodes' = nodes /\ history' = history]_vars

\* C4: an edit by an agent holding a stale read that inserts at a position
\* where a change landed since the version it read also inserts is not
\* applied under any strategy but force.
C4_SamePointInsertsConflict ==
    [][\A a \in Agents, n \in NodeIds, c \in Contents, s \in Careful :
          LET yours == YourChanges(n, a, c)
              theirs == TheirChanges(n, a)
              SamePoint(yc, tc) == /\ yc.old_start = yc.old_end
                                   /\ tc.old_start = tc.old_end
                                   /\ yc.old_start = tc.old_start
          IN  (/\ StaleEdit(a, n, c, s)
               /\ \E i \in 1..Len(yours), j \in 1..Len(theirs) :
                      SamePoint(yours[i], theirs[j]))
              => nodes' = nodes /\ history' = history]_vars

\* C5: under the auto strategy, an edit by an agent holding a stale read whose
\* changes neither overlap the changes landed since the version it read nor
\* insert at the same point raises the version by 1 and leaves the content
\* the agent read with the changes of both sides made: each change's new
\* lines in the place of the lines it replaces, every other line kept.
C5_DisjointChangesMerged ==
    [][\A a \in Agents, n \in NodeIds, c \in Contents :
          LET yours == YourChanges(n, a, c)
              theirs == TheirChanges(n, a)
              both == {yours[i] : i \in 1..Len(yours)}
                      \cup {theirs[j] : j \in 1..Len(theirs)}
              base_lines == SplitLines(EditBase(n, a).content)
              Touch(yc, tc) == \/ yc.old_start < tc.old_end /\ tc.old_start < yc.old_end
                               \/ yc.old_start = tc.old_start /\ yc.old_end = tc.old_end
              Inserted(k) == {ch \in both : ch.old_start = k /\ ch.old_end = k}
              Replaced(k) == {ch \in both : ch.old_start = k /\ ch.old_end > k}
              Covered(k) == \E ch \in both : ch.old_start <= k /\ k < ch.old_end
              NewLines(chs) == IF chs = {} THEN << >> ELSE (CHOOSE ch \in chs : TRUE).new_lines
              Piece(k) == NewLines(Inserted(k)) \o NewLines(Replaced(k))
                          \o (IF k < Len(base_lines) /\ ~Covered(k)
                              THEN <<base_lines[k + 1]>> ELSE << >>)
              merged == Concat([k \in 1..(Len(base_lines) + 1) |-> Piece(k - 1)])
          IN  (/\ StaleEdit(a, n, c, "auto")
               /\ \A i \in 1..Len(yours), j \in 1..Len(theirs) :
                      ~Touch(yours[i], theirs[j]))
              => /\ nodes'[n].version = nodes[n].version + 1
                 /\ SplitLines(nodes'[n].content) = merged]_vars

\* C6: an edit by an agent holding a stale read that changes two or more
\* regions of the content it read, one of them overlapping a change landed
\* since, is refused under any strategy but force: the node's version and
\* content stay as they are.
C6_AllOrNothing ==
    [][\A a \in Agents, n \in NodeIds, c \in Contents, s \in Careful :
          (/\ StaleEdit(a, n, c, s)
           /\ Len(YourChanges(n, a, c)) >= 2
           /\ Overlaps(n, a, c) # << >>)
          => /\ nodes'[n].version = nodes[n].version
             /\ nodes'[n].content = nodes[n].content]_vars

\* C7: once an auto-merge has landed since the version an agent read, an
\* edit by that agent whose changes overlap the changes landed since that
\* version (those of the auto-merge among them) is not applied under any
\* strategy but force.
C7_AutoMergedLinesProtected ==
    [][\A a \in Agents, n \in NodeIds, c \in Contents, s \in Careful :
          (/\ StaleEdit(a, n, c, s)
           /\ \E k \in 1..Len(nodes[n].edit_history) :
                  /\ nodes[n].edit_history[k].summary = "auto-merged"
                  /\ nodes[n].edit_history[k].version > EditBase(n, a).version
           /\ Overlaps(n, a, c) # << >>)
          => nodes' = nodes]_vars

\* C8: niwa resolve by an agent whose stored conflict for the node records a
\* current_version other than the node's version leaves the node as it is,
\* for each resolution that writes content.
C8_StaleConflictRefused ==
    [][\A a \in Agents, n \in NodeIds :
          \A r \in {"ACCEPT_YOURS", "ACCEPT_AUTO_MERGE", "MANUAL_MERGE"} :
          \A c \in (IF r = "MANUAL_MERGE" THEN Contents ELSE {None}) :
              ((\E k \in 1..Len(conflicts[a]) :
                    /\ conflicts[a][k].node_id = n
                    /\ conflicts[a][k].current_version # nodes[n].version)
               /\ CmdResolve(a, n, r, c))
              => nodes'[n].version = nodes[n].version
                 /\ nodes'[n].content = nodes[n].content]_vars

\* C9: the mutations of a node are totally ordered: the versions of its
\* history entries strictly increase (no version is produced twice), each
\* entry's prev_version is the version of the entry before it, the last entry
\* carries the node's version, and every mutation has its own snapshot.
C9_TotalOrder ==
    \A n \in NodeIds :
        LET h == nodes[n].edit_history
        IN  /\ \A i \in 1..Len(h), j \in 1..Len(h) :
                   i < j => h[i].version < h[j].version
            /\ \A i \in 2..Len(h) : h[i].prev_version = h[i - 1].version
            /\ h[Len(h)].version = nodes[n].version
            /\ Cardinality({k \in DOMAIN history : k[1] = n}) = Len(h) - 1

\* C9 witness: each of the three agents has landed one mutation of the node.
C9_Witness ==
    \E n \in NodeIds :
        LET h == nodes[n].edit_history
        IN  /\ Len(h) = 4
            /\ {h[i].agent : i \in 2..4} = Agents

HoldsConflict(agent, node_id, store) ==
    \E k \in 1..Len(store[agent]) : store[agent][k].node_id = node_id

\* C11: an edit given no --strategy by an agent holding a stale read, whose
\* changes neither overlap the changes landed since the version it read nor
\* insert at the same point, is applied: the version rises by 1, the new
\* lines of both sides' changes stand in the content, and the agent is left
\* no conflict for the node.
C11_UnpromptedMergeOfDisjointChanges ==
    [][\A a \in Agents, n \in NodeIds, c \in Contents :
          LET yours == YourChanges(n, a, c)
              theirs == TheirChanges(n, a)
              both == {yours[i] : i \in 1..Len(yours)}
                      \cup {theirs[j] : j \in 1..Len(theirs)}
              Touch(yc, tc) == \/ yc.old_start < tc.old_end /\ tc.old_start < yc.old_end
                               \/ yc.old_start = tc.old_start /\ yc.old_end = tc.old_end
          IN  (/\ StaleEdit(a, n, c, DefaultStrategy)
               /\ \A i \in 1..Len(yours), j \in 1..Len(theirs) :
                      ~Touch(yours[i], theirs[j]))
              => /\ nodes'[n].version = nodes[n].version + 1
                 /\ \A ch \in both :
                        \E i \in 0..Len(SplitLines(nodes'[n].content)) :
                            Slice(SplitLines(nodes'[n].content), i,
                                  i + Len(ch.new_lines)) = ch.new_lines
                 /\ ~HoldsConflict(a, n, conflicts')]_vars

\* What a step that is niwa edit of the node by the agent shows: a version of
\* the agent's has landed, or the node is as it was and the agent holds a
\* conflict for it.
EditShows(agent, node_id) ==
    \/ /\ nodes'[node_id].version = nodes[node_id].version + 1
       /\ nodes'[node_id].last_agent = agent
    \/ /\ nodes'[node_id] = nodes[node_id]
       /\ HoldsConflict(agent, node_id, conflicts')

\* C12: an edit that starts from the node's current version (the version of
\* the agent's pending read, or no pending read at all) is applied as it is
\* under every strategy: the content submitted becomes the node's content at
\* the next version, recorded as a plain edit, and no conflict is stored.
C12_CaughtUpEditApplied ==
    [][\A a \in Agents, n \in NodeIds, c \in Contents, s \in Strategies :
          (/\ EditBase(n, a).version = nodes[n].version
           /\ EditShows(a, n)
           /\ CmdEdit(a, n, c, s))
          => /\ nodes'[n].content = c
             /\ nodes'[n].version = nodes[n].version + 1
             /\ nodes'[n].edit_history[Len(nodes'[n].edit_history)] =
                    [version |-> nodes[n].version + 1, agent |-> a,
                     summary |-> "edit", prev_version |-> nodes[n].version]
             /\ history'[<<n, nodes[n].version + 1>>].content = c
             /\ conflicts' = conflicts]_vars

\* C12 witness: three edits in a row, each from the version current at its
\* time, have been applied as they were.
C12_Witness ==
    \E n \in NodeIds :
        /\ nodes[n].version = 4
        /\ \A k \in 2..4 : nodes[n].edit_history[k].summary = "edit"
        /\ \A k \in 2..4 : history[<<n, k>>].content \in Contents
        /\ nodes[n].content = history[<<n, 4>>].content
        /\ \A a \in Agents : conflicts[a] = << >>

\* The conflict the agent holds for the node is of the node's present version.
HoldsFreshConflict(agent, node_id) ==
    \E k \in 1..Len(conflicts[agent]) :
        /\ conflicts[agent][k].node_id = node_id
        /\ conflicts[agent][k].current_version = nodes[node_id].version

\* C13: niwa resolve ACCEPT_YOURS by an agent whose stored conflict for the
\* node is of the node's present version makes the your_content of that
\* conflict the node's content and raises the version by 1.
C13_AcceptYoursWritesYourContent ==
    [][\A a \in Agents, n \in NodeIds :
          (HoldsFreshConflict(a, n) /\ CmdResolve(a, n, "ACCEPT_YOURS", None))
          => \E k \in 1..Len(conflicts[a]) :
                 /\ conflicts[a][k].node_id = n
                 /\ nodes'[n].content = conflicts[a][k].your_content
                 /\ nodes'[n].version = nodes[n].version + 1]_vars

\* C14: niwa resolve ACCEPT_THEIRS writes nothing: the node (version,
\* content, edit history) and the snapshots stay as they are.
C14_AcceptTheirsWritesNothing ==
    [][\A a \in Agents, n \in NodeIds :
          CmdResolve(a, n, "ACCEPT_THEIRS", None)
          => nodes' = nodes /\ history' = history]_vars

\* The agent has given up its refused edit of the node with ACCEPT_THEIRS:
\* its pending read was consumed by an edit, no mutation of the node is its
\* own, and it holds no conflict for the node any more.
GaveUp(agent, node_id) ==
    /\ <<node_id, agent>> \notin DOMAIN pending
    /\ ~HoldsConflict(agent, node_id, conflicts)
    /\ \A k \in 1..Len(nodes[node_id].edit_history) :
           nodes[node_id].edit_history[k].agent # agent

\* C14 witness: an agent has given up its refused edit with ACCEPT_THEIRS,
\* and the node is still at the version the other agent's edit left it at.
C14_Witness ==
    \E a \in Agents, n \in NodeIds :
        /\ GaveUp(a, n)
        /\ nodes[n].version = 2
        /\ Len(nodes[n].edit_history) = 2
        /\ DOMAIN history = {<<n, 2>>}

\* C16: niwa resolve ACCEPT_AUTO_MERGE by an agent whose stored conflict for
\* the node is of the node's present version and reports an auto-merge as
\* possible makes the auto-merged content of that conflict the node's
\* content and raises the version by 1.
C16_AcceptAutoMergeWritesMerge ==
    [][\A a \in Agents, n \in NodeIds :
          \A k \in 1..Len(conflicts[a]) :
              (/\ conflicts[a][k].node_id = n
               /\ conflicts[a][k].current_version = nodes[n].version
               /\ conflicts[a][k].auto_merge_possible
               /\ CmdResolve(a, n, "ACCEPT_AUTO_MERGE", None))
              => /\ nodes'[n].content = conflicts[a][k].auto_merged_content
                 /\ nodes'[n].version = nodes[n].version + 1]_vars

\* C15: once an agent has given up its refused edit of a node with
\* ACCEPT_THEIRS, niwa resolve ACCEPT_YOURS by another agent whose stored
\* conflict for the node is of the node's present version makes the
\* your_content of that conflict the node's content.
C15_ResolvableAfterAcceptTheirs ==
    [][\A a \in Agents, b \in Agents, n \in NodeIds :
          (/\ a # b
           /\ GaveUp(a, n)
           /\ HoldsFreshConflict(b, n)
           /\ CmdResolve(b, n, "ACCEPT_YOURS", None))
          => \E k \in 1..Len(conflicts[b]) :
                 /\ conflicts[b][k].node_id = n
                 /\ nodes'[n].content = conflicts[b][k].your_content]_vars

\* C17: niwa read of a node by an agent leaves that agent's pending read at
\* the node's current version and content, whatever it held before, so that
\* an edit of the node by the agent in the state the read leaves is applied
\* as it is, under every strategy and with every content.
C17_ReadTracksCurrentVersion ==
    [][\A a \in Agents, n \in NodeIds :
          CmdRead(a, n)
          => /\ <<n, a>> \in DOMAIN pending'
             /\ pending'[<<n, a>>] = [read_version |-> nodes[n].version,
                                      base_content |-> nodes[n].content]
             /\ \A c \in Contents, s \in Strategies :
                    EditFrom(nodes'[n],
                             [version |-> pending'[<<n, a>>].read_version,
                              content |-> pending'[<<n, a>>].base_content],
                             c, a, s)
                        = [kind |-> "applied", content |-> c, summary |-> "edit"]]_vars

\* C17 witness: an agent that read version 1, and was refused an edit or not,
\* has read the node again at version 3 while another agent still holds its
\* read of version 1.
C17_Witness ==
    \E a \in Agents, b \in Agents, n \in NodeIds :
        /\ a # b
        /\ nodes[n].version = 3
        /\ <<n, a>> \in DOMAIN pending
        /\ pending[<<n, a>>] = [read_version |-> 3, base_content |-> nodes[n].content]
        /\ <<n, b>> \in DOMAIN pending
        /\ pending[<<n, b>>].read_version = 1

\* The conflicts the agent holds for the node in the store.
ConflictsOn(agent, node_id, store) ==
    LET OnNode(c) == c.node_id = node_id
    IN  SelectSeq(store[agent], OnNode)

\* C18: niwa read of a node by an agent leaves the agent no conflict for
\* that node, and leaves the conflicts the agent holds for every other node
\* and the conflicts of every other agent as they are.
C18_ReadClearsOnlyOwnConflict ==
    [][\A a \in Agents, n \in TwoIds :
          CmdRead(a, n)
          => /\ ConflictsOn(a, n, conflicts') = << >>
             /\ \A m \in TwoIds \ {n} :
                    ConflictsOn(a, m, conflicts') = ConflictsOn(a, m, conflicts)
             /\ \A b \in Agents \ {a} : conflicts'[b] = conflicts[b]]_vars

\* C18 witness: an agent that was refused on both nodes has read one of them
\* again: it holds the current version of that node and no conflict for it,
\* it still holds its conflict for the other node, and another agent still
\* holds a conflict for the node read.
C18_Witness ==
    \E a \in Agents, b \in Agents, n \in TwoIds, m \in TwoIds :
        /\ a # b /\ n # m
        /\ nodes[n].version = 2
        /\ <<n, a>> \in DOMAIN pending
        /\ pending[<<n, a>>].read_version = 2
        /\ ConflictsOn(a, n, conflicts) = << >>
        /\ Len(ConflictsOn(a, m, conflicts)) = 1
        /\ Len(ConflictsOn(b, n, conflicts)) = 1

\* C19: after niwa edit of an existing node by an agent, applied or refused,
\* under any strategy, the agent holds no pending read for the node: no step
\* that leaves the agent a pending read for the node is such an edit.
C19_EditConsumesPendingRead ==
    [][\A a \in Agents, n \in NodeIds, c \in Contents, s \in Strategies :
          (<<n, a>> \in DOMAIN pending' /\ EditShows(a, n))
          => ~CmdEdit(a, n, c, s)]_vars

\* C19 witness: of three agents that held a pending read, one has edited
\* directly, one has been refused and one has forced its edit; none holds a
\* pending read any more.
C19_Witness ==
    \E n \in NodeIds :
        /\ \A a \in Agents : <<n, a>> \notin DOMAIN pending
        /\ \E a \in Agents : HoldsConflict(a, n, conflicts)
        /\ {"edit", "forced"} \subseteq Summaries(n)

\* C20: niwa edit of an existing node by an agent that holds no pending read
\* for it is applied as it is under every strategy: the content submitted
\* becomes the node's content at the next version and no conflict is stored.
C20_UnreadEditApplied ==
    [][\A a \in Agents, n \in NodeIds, c \in Contents, s \in Strategies :
          (/\ <<n, a>> \notin DOMAIN pending
           /\ EditShows(a, n)
           /\ CmdEdit(a, n, c, s))
          => /\ nodes'[n].content = c
             /\ nodes'[n].version = nodes[n].version + 1
             /\ nodes'[n].edit_history[Len(nodes'[n].edit_history)].summary = "edit"
             /\ conflicts' = conflicts]_vars

\* C20 witness: an agent refused at version 2 has edited again without
\* reading: its edit is version 3, a plain edit, and the conflict of version 2
\* is still stored.
C20_Witness ==
    \E a \in Agents, n \in NodeIds :
        /\ nodes[n].version = 3
        /\ nodes[n].edit_history[3].agent = a
        /\ nodes[n].edit_history[3].summary = "edit"
        /\ nodes[n].edit_history[2].agent # a
        /\ \E k \in 1..Len(conflicts[a]) :
               /\ conflicts[a][k].node_id = n
               /\ conflicts[a][k].current_version = 2

ResolveResult(agent, node_id, resolution, manual_content) ==
    IF ResolveRefusedAtOnce(resolution, manual_content)
    THEN [kind |-> "refused"]
    ELSE ResolveConflict(node_id, resolution, agent, manual_content, NoConflict)

\* C22: niwa resolve by an agent on a node that succeeds leaves the agent no
\* stored conflict for that node and leaves the conflicts the agent holds
\* for every other node, and every other agent's conflicts, as they are;
\* niwa resolve that fails leaves every stored conflict as it is.
C22_ResolveClearsOnlyOwnConflict ==
    [][\A a \in Pair, n \in TwoIds, r \in Resolutions :
        \A c \in (IF r = "MANUAL_MERGE" THEN TwoContents ELSE {}) \cup {None} :
          (pending' = pending /\ CmdResolve(a, n, r, c))
          => IF ResolveResult(a, n, r, c).kind \in {"applied", "kept"}
             THEN /\ ConflictsOn(a, n, conflicts') = << >>
                  /\ \A m \in TwoIds \ {n} :
                         ConflictsOn(a, m, conflicts') = ConflictsOn(a, m, conflicts)
                  /\ \A b \in Agents \ {a} : conflicts'[b] = conflicts[b]
             ELSE conflicts' = conflicts]_vars

\* C22 witness: an agent that was refused on both nodes has resolved one of
\* them with MANUAL_MERGE: the resolution is the node's version 3, the agent
\* holds no conflict for that node and no pending read of it, and it still
\* holds its conflict for the other node.
C22_Witness ==
    \E a \in Pair, n \in TwoIds, m \in TwoIds :
        /\ n # m
        /\ <<n, a>> \notin DOMAIN pending
        /\ ConflictsOn(a, n, conflicts) = << >>
        /\ nodes[n].version = 3
        /\ nodes[n].edit_history[3].agent = a
        /\ nodes[n].edit_history[2].agent # a
        /\ Len(ConflictsOn(a, m, conflicts)) = 1

\* C23: every node has, for every version from 1 up to its current one, a
\* snapshot, the snapshot of the current version holds the node's content,
\* and no step changes or removes a snapshot that exists.
C23_EveryVersionHasSnapshot ==
    /\ [](\A n \in DOMAIN nodes :
             /\ \A v \in 1..nodes[n].version : <<n, v>> \in DOMAIN history
             /\ history[<<n, nodes[n].version>>].content = nodes[n].content)
    /\ [][\A k \in DOMAIN history :
              k \in DOMAIN history' /\ history'[k] = history[k]]_vars

\* C24: niwa rollback of a node to a version earlier than its current one
\* makes the node's version its current version plus 1 and its content the
\* content of that version's snapshot, and leaves every snapshot and every
\* entry of the node's edit history as it was.
C24_RollbackIsNewVersion ==
    [][\A a \in Pair, n \in NodeIds, v \in RollbackVersions :
          (v < nodes[n].version /\ CmdRollback(a, n, v))
          => /\ nodes'[n].version = nodes[n].version + 1
             /\ <<n, v>> \in DOMAIN history
             /\ nodes'[n].content = history[<<n, v>>].content
             /\ \A k \in DOMAIN history :
                    k \in DOMAIN history' /\ history'[k] = history[k]
             /\ \A k \in 1..Len(nodes[n].edit_history) :
                    nodes'[n].edit_history[k] = nodes[n].edit_history[k]]_vars

\* C25: once a rollback of a node has been applied, niwa rollback to the
\* version that was current just before that rollback makes a new version
\* whose content is that version's content.
C25_RollbackCanBeRolledBack ==
    [][\A a \in Pair, n \in NodeIds, k \in RollbackVersions :
          (/\ k <= Len(nodes[n].edit_history)
           /\ nodes[n].edit_history[k].summary = "rollback"
           /\ CmdRollback(a, n, nodes[n].edit_history[k].prev_version))
          => /\ nodes'[n].version = nodes[n].version + 1
             /\ nodes'[n].content
                    = history[<<n, nodes[n].edit_history[k].prev_version>>].content]_vars

\* C26: niwa resolve with a resolution that is not a valid one, with
\* MANUAL_MERGE and no content or empty content, or with ACCEPT_AUTO_MERGE by
\* an agent that holds no conflict for the node with an auto-merge computed,
\* changes neither the node, nor the snapshots, nor the pending reads, nor
\* the stored conflicts.
C26_InvalidResolutionMutatesNothing ==
    [][\A a \in Agents, n \in NodeIds :
          (\/ CmdResolve(a, n, UnknownResolution, None)
           \/ CmdResolve(a, n, "MANUAL_MERGE", None)
           \/ CmdResolve(a, n, "MANUAL_MERGE", << >>)
           \/ /\ \A k \in 1..Len(conflicts[a]) :
                     conflicts[a][k].node_id = n
                     => conflicts[a][k].auto_merged_content = None
              /\ CmdResolve(a, n, "ACCEPT_AUTO_MERGE", None))
          => UNCHANGED <<nodes, history, pending, conflicts>>]_vars

\* C26 witness: of three commands one has landed version 2 and one has left
\* an agent a conflict without an auto-merge; the third, with the conflict
\* in place, has changed nothing.
C26_Witness ==
    \E a \in Pair, n \in NodeIds :
        /\ steps = 3
        /\ nodes[n].version = 2
        /\ DOMAIN pending = {}
        /\ Len(ConflictsOn(a, n, conflicts)) = 1
        /\ ConflictsOn(a, n, conflicts)[1].auto_merged_content = None
        /\ ~ConflictsOn(a, n, conflicts)[1].auto_merge_possible

\* C27: every call of edit_node on a node that exists, under each strategy,
\* returns an applied write or a conflict carrying a ConflictAnalysis; none
\* ends in an error.
C27_EditEndsInTypedOutcome ==
    [][\A a \in Agents, n \in NodeIds, c \in Contents, s \in Strategies :
          LibEdit(a, n, c, s)
          => LibEditNode(n, c, a, s).kind \in {"applied", "conflict"}]_vars

C29_UnchangedTextKeepsLanded ==
    [][\A a \in Pair, n \in NodeIds, c \in WideContents, s \in Careful :
          (/\ StaleEdit(a, n, c, s)
           /\ c = pending[<<n, a>>].base_content)
          => /\ YourChanges(n, a, c) = << >>
             /\ Overlaps(n, a, c) = << >>
             /\ nodes'[n].content = nodes[n].content
             /\ s = "auto" => nodes'[n].version = nodes[n].version + 1
             /\ s = "prompt" => /\ Len(ConflictsOn(a, n, conflicts')) = 1
                                /\ ConflictsOn(a, n, conflicts')[1].auto_merged_content
                                       = nodes[n].content]_vars

\* C29 witness: the node was added empty, one agent has landed a text as
\* version 2, and the other agent's auto strategy edit with the empty text it
\* had read has made version 3 with the landed text.
C29_Witness ==
    \E n \in NodeIds :
        /\ nodes[n].version = 3
        /\ nodes[n].edit_history[3].summary = "auto-merged"
        /\ nodes[n].edit_history[3].agent # nodes[n].edit_history[2].agent
        /\ history[<<n, 2>>].content # << >>
        /\ history[<<n, 3>>].content = history[<<n, 2>>].content
        /\ steps = 2

\* C30: niwa dry-run reports would_succeed exactly when niwa edit of the same
\* node with the same content by the same agent, given no --strategy and run
\* in the state the dry-run leaves, is applied, and reports a conflict
\* exactly when that edit returns a conflict.
C30_DryRunAgreesWithEdit ==
    [][\A a \in Pair, n \in AllIds, c \in WideContents :
          CmdDryRun(a, n, c)
          => LET dry == DryRunEdit(n, c, a)
                 kind == IF n \notin DOMAIN nodes'
                         THEN "not_found"
                         ELSE EditFrom(nodes'[n],
                                       IF <<n, a>> \in DOMAIN pending'
                                       THEN [version |-> pending'[<<n, a>>].read_version,
                                             content |-> pending'[<<n, a>>].base_content]
                                       ELSE [version |-> nodes'[n].version,
                                             content |-> nodes'[n].content],
                                       c, a, DefaultStrategy).kind
             IN  /\ dry.would_succeed <=> kind = "applied"
                 /\ dry.reason = "conflict" <=> kind = "conflict"]_vars

\* C30 witness: after two commands one agent holds a stale read (dry-run
\* reports a conflict), the other holds none (dry-run reports success), and
\* a third command has changed nothing.
C30_Witness ==
    \E a \in Pair, b \in Pair, n \in NodeIds :
        /\ steps = 3
        /\ nodes[n].version = 2
        /\ StaleRead(n, a)
        /\ <<n, b>> \notin DOMAIN pending
        /\ \A c \in WideContents :
               /\ DryRunEdit(n, c, a).reason = "conflict"
               /\ DryRunEdit(n, c, b).would_succeed
        /\ \A x \in Agents : conflicts[x] = << >>

\* C32: every node that has a parent_id is listed exactly once in the
\* children of the node its parent_id names, and that node exists; a
\* create_node that succeeds with a parent leaves the new id in the parent's
\* children, and a create_node under a parent that does not exist leaves
\* the nodes as they are.
C32_ChildListedOnceUnderParent ==
    /\ [](\A n \in DOMAIN nodes :
             nodes[n].parent_id # NoParent
             => /\ nodes[n].parent_id \in DOMAIN nodes
                /\ Cardinality({i \in 1..Len(nodes[nodes[n].parent_id].children) :
                                   nodes[nodes[n].parent_id].children[i] = n}) = 1)
    /\ [][\A a \in Pair, n \in CreateIds, t \in Titles, p \in CreateParents :
              nodes' = CreateNode(n, t, << >>, p, a).nodes
              => /\ (CreateNode(n, t, << >>, p, a).success /\ p # NoParent)
                    => (p \in DOMAIN nodes' /\ n \in Range(nodes'[p].children))
                 /\ (p # NoParent /\ p \notin DOMAIN nodes) => nodes' = nodes]_vars

\* C34: no two children of a parent carry the same title, compared in lower
\* case, whatever the order in which the agents' adds run; an add whose
\* title is taken under the parent ends without creating a node.
C34_SiblingTitlesDistinct ==
    /\ [](\A p \in DOMAIN nodes :
             \A i \in 1..Len(nodes[p].children), j \in 1..Len(nodes[p].children) :
                 (i # j /\ nodes[p].children[i] \in DOMAIN nodes
                        /\ nodes[p].children[j] \in DOMAIN nodes)
                 => Lower(nodes[nodes[p].children[i]].title)
                        # Lower(nodes[nodes[p].children[j]].title))
    /\ [][\A a \in Pair, t \in Titles, p \in AddParents :
              (FindChildByTitle(p, t) # NoNode /\ AddLookup(a, t, p))
              => UNCHANGED <<nodes, adding>>]_vars

\* An agent identifier that is empty, longer than 50 characters, or holds a
\* character other than letters, digits, underscore and hyphen.
Malformed(agent_id) ==
    \/ agent_id = << >>
    \/ Len(agent_id) > 50
    \/ \E i \in 1..Len(agent_id) : agent_id[i] \notin NameChars

\* C33: nothing in the store is held under a malformed agent identifier: no
\* pending read, no stored conflict, and no node or snapshot written by it.
C33_NothingUnderMalformedAgent ==
    \A a \in AgentNames :
        Malformed(a)
        => /\ \A k \in DOMAIN pending : k[2] # a
           /\ conflicts[a] = << >>
           /\ \A n \in DOMAIN nodes : nodes[n].last_agent # a
           /\ \A k \in DOMAIN history : history[k].agent # a

\* C35: when the changes of an edit by an agent holding a stale read are
\* reported as overlapping none of the changes landed since its read, the
\* three-way merge applies every operation of both sides: it passes over none.
C35_MergeSkipsNoOperation ==
    [][\A a \in Agents, n \in NodeIds, c \in Contents, s \in Careful :
          (StaleEdit(a, n, c, s) /\ Overlaps(n, a, c) = << >>)
          => MergeSkips(pending[<<n, a>>].base_content, c, nodes[n].content)
                 = << >>]_vars

\* C36: niwa resolve by an agent that holds no stored conflict for the node
\* changes neither the node nor the snapshots; when the agent holds one, a
\* resolve that changes the node finds the node at the version the conflict
\* records.
C36_ResolveNeedsStoredConflict ==
    [][\A a \in Agents, n \in NodeIds, r \in Resolutions, c \in Contents \cup {None} :
          (nodes'[n] # nodes[n] /\ CmdResolve(a, n, r, c))
          => /\ ConflictsOn(a, n, conflicts) # << >>
             /\ ConflictsOn(a, n, conflicts)[1].current_version
                    = nodes[n].version]_vars

\* C37: while an agent holds the conflict stored for its refused edit of a
\* node (it has neither read the node again nor resolved the conflict), a
\* further niwa edit of the node by the agent under the prompt strategy
\* leaves the node as it is and leaves the agent a stored conflict.
C37_RepeatedEditRefusedAgain ==
    [][\A a \in Agents, n \in NodeIds, c \in Contents :
          (HoldsConflict(a, n, conflicts) /\ CmdEdit(a, n, c, "prompt"))
          => /\ nodes'[n] = nodes[n]
             /\ HoldsConflict(a, n, conflicts')]_vars

\* C38: when niwa cleanup removes the pending read an agent holds of a
\* version that is no longer current, an edit of the node by that agent is
\* still returned as a conflict afterwards.
C38_CleanupKeepsEditRefused ==
    [][\A a \in Agents, n \in NodeIds, c \in Contents :
          (/\ StaleRead(n, a)
           /\ <<n, a>> \notin DOMAIN pending'
           /\ \E sr \in BOOLEAN, sc \in BOOLEAN : CmdCleanup(sr, sc))
          => EditNode(n, c, a, DefaultStrategy)'.kind = "conflict"]_vars

\* C39: when an edit is auto-merged onto the one edit landed since the
\* version its agent read, and the changes of the two edits are reported as
\* non-overlapping in either landing order, the content the node gets is the
\* content the other order gives: the landed edit auto-merged onto this one.
C39_MergeOrderIndependent ==
    [][\A a \in Agents, n \in NodeIds, c \in Contents :
          (/\ nodes'[n] # nodes[n]
           /\ StaleEdit(a, n, c, "auto")
           /\ nodes[n].version = pending[<<n, a>>].read_version + 1
           /\ Overlaps(n, a, c) = << >>
           /\ Analyzed(pending[<<n, a>>].base_content, nodes[n].content, c)
                  .overlapping_regions = << >>
           /\ Analyzed(pending[<<n, a>>].base_content, nodes[n].content, c)
                  .auto_merged_content # None)
          => nodes'[n].content
                 = Analyzed(pending[<<n, a>>].base_content, nodes[n].content, c)
                       .auto_merged_content]_vars

\* C40: a step that changes a node's title or summary leaves the node's
\* version, content and edit history, the snapshots and every agent's pending
\* read and stored conflicts as they were, and an edit by an agent whose
\* pending read was of the current version is applied as given afterwards,
\* under every strategy.
C40_TitleAndSummaryFrame ==
    [][\A n \in NodeIds :
          (nodes'[n].title # nodes[n].title \/ nodes'[n].summary # nodes[n].summary)
          => /\ nodes'[n].version = nodes[n].version
             /\ nodes'[n].content = nodes[n].content
             /\ nodes'[n].edit_history = nodes[n].edit_history
             /\ nodes'[n].last_agent = nodes[n].last_agent
             /\ history' = history
             /\ pending' = pending
             /\ conflicts' = conflicts
             /\ \A a \in Agents, c \in Contents, s \in Strategies :
                    (<<n, a>> \in DOMAIN pending /\ ~StaleRead(n, a))
                    => EditNode(n, c, a, s)'
                           = [kind |-> "applied", content |-> c,
                              summary |-> "edit"]]_vars

\* C40: the title and the summary of a node have been rewritten after edits
\* landed, and an agent holds a pending read of the current version.
C40_Witness ==
    \E n \in NodeIds, a \in Agents :
        /\ nodes[n].title \in NewTitles
        /\ nodes[n].summary \in NewSummaries
        /\ nodes[n].version > 1
        /\ <<n, a>> \in DOMAIN pending
        /\ pending[<<n, a>>].read_version = nodes[n].version

\* C31: a node's edit_history holds the entries of its latest versions, at
\* most HistoryLimit of them and all of them while there are no more than
\* that, in increasing order and ending at the node's current version; a
\* mutation appends its entry, and evicts the oldest one when the history is
\* full.
C31_HistoryKeepsLatest ==
    /\ [](\A n \in DOMAIN nodes :
             LET h == nodes[n].edit_history
             IN  /\ Len(h) = Min(nodes[n].version, HistoryLimit)
                 /\ \A i \in 1..Len(h) :
                        h[i].version = nodes[n].version - Len(h) + i)
    /\ [][\A n \in DOMAIN nodes :
              nodes'[n].version = nodes[n].version + 1
              => LET h == nodes[n].edit_history
                     g == nodes'[n].edit_history
                 IN  /\ g[Len(g)].version = nodes'[n].version
                     /\ IF Len(h) < HistoryLimit
                        THEN SubSeq(g, 1, Len(g) - 1) = h
                        ELSE SubSeq(g, 1, Len(g) - 1) = Tail(h)]_vars

\* C31 witness: the node is at version 22 and its history holds the entries
\* of versions 3 to 22.
C31_Witness ==
    \E n \in NodeIds :
        /\ nodes[n].version = 22
        /\ Len(nodes[n].edit_history) = HistoryLimit
        /\ nodes[n].edit_history[1].version = 3

====
